---- MODULE Spec2Model ----
(***************************************************************************)
(* Code-cache consumer of deps/v8/src/snapshot/code-serializer.cc:         *)
(* the two-phase sanity check of a cached-data buffer, the synchronous     *)
(* CodeSerializer::Deserialize, and the off-thread pair                    *)
(* StartDeserializeOffThread / FinishOffThreadDeserialize.                 *)
(*                                                                         *)
(* One cache entry (its bytes never change) is seen through two            *)
(* AlignedCachedData wrappers, each with its own rejected_ flag.  The      *)
(* controlling thread issues calls; at most one background thread runs     *)
(* StartDeserializeOffThread at a time.  A wrapper is used by one decode   *)
(* at a time.                                                              *)
(***************************************************************************)
EXTENDS Integers, Sequences, FiniteSets, TLC

VARIABLES
  buffer,        \* the bytes of the cache entry: header fields, size, payload area
  flag_verify,   \* FLAG_verify_snapshot_checksum
  flag_stress,   \* FLAG_stress_background_compile
  origin_options,\* ScriptOriginOptions::IsModule() of the script the callers load
  rejected,      \* AlignedCachedData::rejected_ of each wrapper
  main,          \* controlling thread: position and locals of the call it executes
  worker,        \* background thread: position and locals of StartDeserializeOffThread
  data,          \* CodeSerializer::OffThreadDeserializeData handed from Start to Finish
  heap,          \* scripts allocated by the deserializer: id -> [source, body]
  script_list,   \* isolate->factory()->script_list(), the shared script registry
  samples,       \* counters()->code_cache_reject_reason() samples, in order
  finalized,     \* results FinalizeDeserialization ran on, in order
  dchecks,       \* names of the DCHECKs of the code that evaluated to false
  ret,           \* ghost: outcome of the call that returned last
  ncalls,        \* ghost: number of calls issued so far
  chk,           \* results of the sanity checks applied to the buffer on their own
  enc,           \* the CodeSerializer of the running Serialize call, and its heap
  acd,           \* an AlignedCachedData under construction and use, and the memory
  sign           \* a Sign or Verify object of crypto_sig.cc, and the calls made on it

\* What no call changes: the entry's bytes, the flags, the script's origin options.
config == <<buffer, flag_verify, flag_stress, origin_options>>

vars == <<config, rejected, main, worker, data, heap, script_list, samples, finalized,
          dchecks, ret, ncalls, chk, enc, acd, sign>>

(***************************************************************************)
(* Bounds of the model.                                                    *)
(***************************************************************************)
MaxSourceLen == 1
MaxPayloadWords == 1
MaxCalls == 2

(***************************************************************************)
(* Values of the build.                                                    *)
(***************************************************************************)
kHeaderSize == 24
kPointerAlignment == 8
kUnalignedHeaderSize == 24
kMagicNumber == 49374
VersionHash == 7
FlagHash == 3

\* A uint32_t is a pair of 16-bit limbs <<high, low>>.
kLimb == 65536
U32(n) == <<(n \div kLimb) % kLimb, n % kLimb>>
kModuleFlagMask == <<32768, 0>>

WrapperOrder == <<"w1", "w2">>
Wrappers == {WrapperOrder[i] : i \in 1..Len(WrapperOrder)}

kSuccess == "kSuccess"
kMagicNumberMismatch == "kMagicNumberMismatch"
kVersionMismatch == "kVersionMismatch"
kSourceMismatch == "kSourceMismatch"
kFlagsMismatch == "kFlagsMismatch"
kChecksumMismatch == "kChecksumMismatch"
kInvalidHeader == "kInvalidHeader"
kLengthMismatch == "kLengthMismatch"

SanityCheckResults ==
  {kSuccess, kMagicNumberMismatch, kVersionMismatch, kSourceMismatch,
   kFlagsMismatch, kChecksumMismatch, kInvalidHeader, kLengthMismatch}

(***************************************************************************)
(* Strings and byte vectors: sequences, told apart by their length.        *)
(***************************************************************************)
RECURSIVE SeqsUpTo(_, _)
SeqsUpTo(S, n) ==
  IF n = 0 THEN {<<>>}
  ELSE LET shorter == SeqsUpTo(S, n - 1)
       IN shorter \cup {Append(s, x) : s \in {t \in shorter : Len(t) = n - 1}, x \in S}

Sources == SeqsUpTo({1}, MaxSourceLen)
empty_string == <<>>

RECURSIVE SumRange(_, _, _)
SumRange(s, first, last) ==
  IF first > last THEN 0
  ELSE IF first = last THEN s[first]
  ELSE LET middle == (first + last) \div 2
       IN SumRange(s, first, middle) + SumRange(s, middle + 1, last)

SumSeq(s) == SumRange(s, 1, Len(s))

RECURSIVE BitOr(_, _, _)
BitOr(a, b, bits) ==
  IF bits = 0 THEN 0
  ELSE IF a = 0 THEN b
  ELSE IF b = 0 THEN a
  ELSE (IF (a % 2) + (b % 2) > 0 THEN 1 ELSE 0) + 2 * BitOr(a \div 2, b \div 2, bits - 1)

Or32(a, b) == <<BitOr(a[1], b[1], 16), BitOr(a[2], b[2], 16)>>

RECURSIVE BitAnd(_, _, _)
BitAnd(a, b, bits) ==
  IF bits = 0 \/ a = 0 \/ b = 0 THEN 0
  ELSE (IF (a % 2) + (b % 2) = 2 THEN 1 ELSE 0) + 2 * BitAnd(a \div 2, b \div 2, bits - 1)

And32(a, b) == <<BitAnd(a[1], b[1], 16), BitAnd(a[2], b[2], 16)>>

\* a - b in uint32_t, for a and b below 2^31: the difference wraps around below zero.
Sub32(a, b) ==
  IF a >= b THEN U32(a - b)
  ELSE LET d == b - a - 1
       IN <<(kLimb - 1) - ((d \div kLimb) % kLimb), (kLimb - 1) - (d % kLimb)>>

\* a > b on uint32_t values.
Gt32(a, b) == a[1] > b[1] \/ (a[1] = b[1] /\ a[2] > b[2])

(***************************************************************************)
(* SerializedCodeData: header access and the sanity checks.                *)
(* A check yields its result and the header fields it read.                *)
(***************************************************************************)
ChecksummedContent(scd) ==
  <<scd.magic, scd.version_hash>> \o scd.source_hash
    \o <<scd.flags_hash, scd.payload_length>> \o scd.payload

Checksum(content) == SumSeq(content) % kLimb

\* SourceHash with the module flag kept in bit 30.
SourceHashOfLength_Bit30(source_length, is_module) ==
  LET mask == <<kModuleFlagMask[1] \div 2, 0>>
      is_module_mask == IF is_module THEN mask ELSE U32(0)
  IN [hash |-> Or32(source_length, is_module_mask),
      dcheck |-> And32(source_length, mask) = U32(0)]

\* SourceHash for a source of source->length() = source_length: the hash, and
\* whether DCHECK_EQ(0, source_length & kModuleFlagMask) holds.
SourceHashOfLength(source_length, is_module) ==
  LET is_module_mask == IF is_module THEN kModuleFlagMask ELSE U32(0)
  IN [hash |-> Or32(source_length, is_module_mask),
      dcheck |-> And32(source_length, kModuleFlagMask) = U32(0)]

SourceHash(source, is_module) == SourceHashOfLength(U32(Len(source)), is_module).hash

\* SanityCheckJustSource that compares the source lengths only, not the module bit.
SanityCheckJustSource_IgnoresModuleFlag(scd, expected_source_hash) ==
  IF <<scd.source_hash[1] % kModuleFlagMask[1], scd.source_hash[2]>>
       # <<expected_source_hash[1] % kModuleFlagMask[1], expected_source_hash[2]>>
  THEN [result |-> kSourceMismatch, reads |-> {"source_hash"}]
  ELSE [result |-> kSuccess, reads |-> {"source_hash"}]

SanityCheckJustSource(scd, expected_source_hash) ==
  IF scd.source_hash # expected_source_hash
  THEN [result |-> kSourceMismatch, reads |-> {"source_hash"}]
  ELSE [result |-> kSuccess, reads |-> {"source_hash"}]

\* SanityCheckWithoutSource with the flags hash tested before the version hash.
SanityCheckWithoutSource_FlagsFirst(scd, verify) ==
  IF scd.size < kHeaderSize
  THEN [result |-> kInvalidHeader, reads |-> {}]
  ELSE IF scd.magic # kMagicNumber
  THEN [result |-> kMagicNumberMismatch, reads |-> {"magic"}]
  ELSE IF scd.flags_hash # FlagHash
  THEN [result |-> kFlagsMismatch, reads |-> {"magic", "flags_hash"}]
  ELSE IF scd.version_hash # VersionHash
  THEN [result |-> kVersionMismatch, reads |-> {"magic", "version_hash", "flags_hash"}]
  ELSE IF Gt32(U32(scd.payload_length), Sub32(scd.size, kHeaderSize))
  THEN [result |-> kLengthMismatch,
        reads |-> {"magic", "version_hash", "flags_hash", "payload_length"}]
  ELSE IF verify /\ Checksum(ChecksummedContent(scd)) # scd.checksum
  THEN [result |-> kChecksumMismatch,
        reads |-> {"magic", "version_hash", "flags_hash", "payload_length", "checksum"}]
  ELSE [result |-> kSuccess,
        reads |-> {"magic", "version_hash", "flags_hash", "payload_length"}
                    \cup (IF verify THEN {"checksum"} ELSE {})]

\* SanityCheckWithoutSource that does not look at the magic number.
SanityCheckWithoutSource_NoMagicCheck(scd, verify) ==
  IF scd.size < kHeaderSize
  THEN [result |-> kInvalidHeader, reads |-> {}]
  ELSE IF scd.version_hash # VersionHash
  THEN [result |-> kVersionMismatch, reads |-> {"version_hash"}]
  ELSE IF scd.flags_hash # FlagHash
  THEN [result |-> kFlagsMismatch, reads |-> {"version_hash", "flags_hash"}]
  ELSE IF Gt32(U32(scd.payload_length), Sub32(scd.size, kHeaderSize))
  THEN [result |-> kLengthMismatch,
        reads |-> {"version_hash", "flags_hash", "payload_length"}]
  ELSE IF verify /\ Checksum(ChecksummedContent(scd)) # scd.checksum
  THEN [result |-> kChecksumMismatch,
        reads |-> {"version_hash", "flags_hash", "payload_length", "checksum"}]
  ELSE [result |-> kSuccess,
        reads |-> {"version_hash", "flags_hash", "payload_length"}
                    \cup (IF verify THEN {"checksum"} ELSE {})]

\* SanityCheckWithoutSource that rejects a payload length equal to the room left.
SanityCheckWithoutSource_LengthOffByOne(scd, verify) ==
  IF scd.size < kHeaderSize
  THEN [result |-> kInvalidHeader, reads |-> {}]
  ELSE IF scd.magic # kMagicNumber
  THEN [result |-> kMagicNumberMismatch, reads |-> {"magic"}]
  ELSE IF scd.version_hash # VersionHash
  THEN [result |-> kVersionMismatch, reads |-> {"magic", "version_hash"}]
  ELSE IF scd.flags_hash # FlagHash
  THEN [result |-> kFlagsMismatch, reads |-> {"magic", "version_hash", "flags_hash"}]
  ELSE IF ~Gt32(Sub32(scd.size, kHeaderSize), U32(scd.payload_length))
  THEN [result |-> kLengthMismatch,
        reads |-> {"magic", "version_hash", "flags_hash", "payload_length"}]
  ELSE IF verify /\ Checksum(ChecksummedContent(scd)) # scd.checksum
  THEN [result |-> kChecksumMismatch,
        reads |-> {"magic", "version_hash", "flags_hash", "payload_length", "checksum"}]
  ELSE [result |-> kSuccess,
        reads |-> {"magic", "version_hash", "flags_hash", "payload_length"}
                    \cup (IF verify THEN {"checksum"} ELSE {})]

SanityCheckWithoutSource(scd, verify) ==
  IF scd.size < kHeaderSize
  THEN [result |-> kInvalidHeader, reads |-> {}]
  ELSE IF scd.magic # kMagicNumber
  THEN [result |-> kMagicNumberMismatch, reads |-> {"magic"}]
  ELSE IF scd.version_hash # VersionHash
  THEN [result |-> kVersionMismatch, reads |-> {"magic", "version_hash"}]
  ELSE IF scd.flags_hash # FlagHash
  THEN [result |-> kFlagsMismatch, reads |-> {"magic", "version_hash", "flags_hash"}]
  ELSE IF Gt32(U32(scd.payload_length), Sub32(scd.size, kHeaderSize))
  THEN [result |-> kLengthMismatch,
        reads |-> {"magic", "version_hash", "flags_hash", "payload_length"}]
  ELSE IF verify /\ Checksum(ChecksummedContent(scd)) # scd.checksum
  THEN [result |-> kChecksumMismatch,
        reads |-> {"magic", "version_hash", "flags_hash", "payload_length", "checksum"}]
  ELSE [result |-> kSuccess,
        reads |-> {"magic", "version_hash", "flags_hash", "payload_length"}
                    \cup (IF verify THEN {"checksum"} ELSE {})]

\* SanityCheck with the source hash compared first.
SanityCheck_SourceFirst(scd, expected_source_hash, verify) ==
  LET just == SanityCheckJustSource(scd, expected_source_hash)
  IN IF just.result # kSuccess THEN just
     ELSE LET result == SanityCheckWithoutSource(scd, verify)
          IN [result |-> result.result, reads |-> result.reads \cup just.reads]

SanityCheck(scd, expected_source_hash, verify) ==
  LET result == SanityCheckWithoutSource(scd, verify)
  IN IF result.result # kSuccess THEN result
     ELSE LET just == SanityCheckJustSource(scd, expected_source_hash)
          IN [result |-> just.result, reads |-> result.reads \cup just.reads]

\* AlignedCachedData::Reject(): the new value of rejected_.
Reject(was_rejected) == TRUE

\* SerializedCodeData::Payload(): the payload_length bytes after the header.
Payload(scd) == SubSeq(scd.payload, 1, scd.payload_length)

\* The DCHECKs of Payload() that fail: kHeaderSize is a multiple of the pointer
\* alignment, so the first holds of aligned data; the second compares the end
\* of the payload with the end of the buffer.
PayloadDChecks(scd) ==
  (IF kHeaderSize % kPointerAlignment = 0 THEN {} ELSE {"Payload:DCHECK(IsAligned)"})
  \cup (IF scd.size = kHeaderSize + scd.payload_length THEN {} ELSE {"Payload:DCHECK_EQ"})

(***************************************************************************)
(* The three wrappers of the checks.  Each yields the rejection result,    *)
(* the new value of the wrapper's rejected_ flag, the SerializedCodeData   *)
(* it returns (<<>> for SerializedCodeData(nullptr, 0)) and the header     *)
(* fields read.                                                            *)
(***************************************************************************)
\* FromCachedData that clears rejected_ when the check succeeds.
FromCachedData_ClearsOnSuccess(cached_data, was_rejected, expected_source_hash, verify) ==
  LET check == SanityCheck(cached_data, expected_source_hash, verify)
  IN IF check.result # kSuccess
     THEN [rejection_result |-> check.result, rejected |-> Reject(was_rejected),
           scd |-> <<>>, reads |-> check.reads]
     ELSE [rejection_result |-> check.result, rejected |-> FALSE,
           scd |-> <<cached_data>>, reads |-> check.reads]

FromCachedData(cached_data, was_rejected, expected_source_hash, verify) ==
  LET check == SanityCheck(cached_data, expected_source_hash, verify)
  IN IF check.result # kSuccess
     THEN [rejection_result |-> check.result, rejected |-> Reject(was_rejected),
           scd |-> <<>>, reads |-> check.reads]
     ELSE [rejection_result |-> check.result, rejected |-> was_rejected,
           scd |-> <<cached_data>>, reads |-> check.reads]

\* FromCachedDataWithoutSource that runs the combined check against the hash of
\* an empty script source.
FromCachedDataWithoutSource_ChecksSource(cached_data, was_rejected, verify) ==
  LET check == SanityCheck(cached_data, U32(0), verify)
  IN IF check.result # kSuccess
     THEN [rejection_result |-> check.result, rejected |-> Reject(was_rejected),
           scd |-> <<>>, reads |-> check.reads]
     ELSE [rejection_result |-> check.result, rejected |-> was_rejected,
           scd |-> <<cached_data>>, reads |-> check.reads]

\* FromCachedDataWithoutSource that calls Reject() whatever the check says.
FromCachedDataWithoutSource_RejectsAlways(cached_data, was_rejected, verify) ==
  LET check == SanityCheckWithoutSource(cached_data, verify)
  IN IF check.result # kSuccess
     THEN [rejection_result |-> check.result, rejected |-> Reject(was_rejected),
           scd |-> <<>>, reads |-> check.reads]
     ELSE [rejection_result |-> check.result, rejected |-> Reject(was_rejected),
           scd |-> <<cached_data>>, reads |-> check.reads]

FromCachedDataWithoutSource(cached_data, was_rejected, verify) ==
  LET check == SanityCheckWithoutSource(cached_data, verify)
  IN IF check.result # kSuccess
     THEN [rejection_result |-> check.result, rejected |-> Reject(was_rejected),
           scd |-> <<>>, reads |-> check.reads]
     ELSE [rejection_result |-> check.result, rejected |-> was_rejected,
           scd |-> <<cached_data>>, reads |-> check.reads]

\* FromPartiallySanityCheckedCachedData that compares the source hash whatever
\* the off-thread result was.
FromPartiallySanityCheckedCachedData_AlwaysChecksSource(cached_data, was_rejected, expected_source_hash, rejection_result) ==
  LET check == SanityCheckJustSource(cached_data, expected_source_hash)
  IN IF check.result # kSuccess
     THEN [rejection_result |-> check.result, rejected |-> Reject(was_rejected),
           scd |-> <<>>, reads |-> check.reads, dchecks |-> {}]
     ELSE IF rejection_result # kSuccess
     THEN [rejection_result |-> rejection_result, rejected |-> Reject(was_rejected),
           scd |-> <<>>, reads |-> check.reads, dchecks |-> {}]
     ELSE [rejection_result |-> check.result, rejected |-> was_rejected,
           scd |-> <<cached_data>>, reads |-> check.reads, dchecks |-> {}]

\* rejection_result is in-out: it enters holding the off-thread result.
FromPartiallySanityCheckedCachedData(cached_data, was_rejected, expected_source_hash, rejection_result) ==
  IF rejection_result # kSuccess
  THEN [rejection_result |-> rejection_result, rejected |-> Reject(was_rejected),
        scd |-> <<>>, reads |-> {},
        dchecks |-> IF rejection_result = kSourceMismatch
                    THEN {"FromPartially:DCHECK_NE"} ELSE {}]
  ELSE LET check == SanityCheckJustSource(cached_data, expected_source_hash)
       IN IF check.result # kSuccess
          THEN [rejection_result |-> check.result, rejected |-> Reject(was_rejected),
                scd |-> <<>>, reads |-> check.reads,
                dchecks |-> IF check.result # kSourceMismatch
                            THEN {"FromPartially:DCHECK_EQ"} ELSE {}]
          ELSE [rejection_result |-> check.result, rejected |-> was_rejected,
                scd |-> <<cached_data>>, reads |-> check.reads, dchecks |-> {}]

(***************************************************************************)
(* The deserializers (object-deserializer.h): allocation either succeeds   *)
(* and yields one SharedFunctionInfo with its one script, or fails and     *)
(* yields nothing.  A script is [source, body]; the synchronous one gets   *)
(* the caller's source, the off-thread one the empty string.               *)
(***************************************************************************)
DeserializeSharedFunctionInfo(scd, source, alloc_ok, id) ==
  IF alloc_ok
  THEN [maybe_result |-> id, allocated |-> (id :> [source |-> source, body |-> Payload(scd)])]
  ELSE [maybe_result |-> 0, allocated |-> <<>>]

\* An off-thread deserializer that does not record the script it allocates.
OffThreadDeserializeSharedFunctionInfo_NoScripts(scd, alloc_ok, id) ==
  IF alloc_ok
  THEN [maybe_result |-> id, scripts |-> <<>>,
        allocated |-> (id :> [source |-> empty_string, body |-> Payload(scd)])]
  ELSE [maybe_result |-> 0, scripts |-> <<>>, allocated |-> <<>>]

OffThreadDeserializeSharedFunctionInfo(scd, alloc_ok, id) ==
  IF alloc_ok
  THEN [maybe_result |-> id, scripts |-> <<id>>,
        allocated |-> (id :> [source |-> empty_string, body |-> Payload(scd)])]
  ELSE [maybe_result |-> 0, scripts |-> <<>>, allocated |-> <<>>]

(***************************************************************************)
(* SerializedCodeData(payload, cs): the entry the serializer writes for a  *)
(* padded payload and the source hash of its CodeSerializer.               *)
(***************************************************************************)
\* The writer taking the checksum before it has set the payload length.
WriteSerializedCodeData_ChecksumTooEarly(payload, source_hash, verify) ==
  LET zeroed == [size |-> kHeaderSize + Len(payload), magic |-> kMagicNumber,
                 version_hash |-> VersionHash, source_hash |-> source_hash,
                 flags_hash |-> FlagHash, payload_length |-> 0,
                 checksum |-> 0, payload |-> payload]
  IN [zeroed EXCEPT !.payload_length = Len(payload),
                    !.checksum = IF verify THEN Checksum(ChecksummedContent(zeroed))
                                 ELSE 0]

\* The writer storing the size of the whole buffer as the payload length.
WriteSerializedCodeData_LengthWithHeader(payload, source_hash, verify) ==
  LET zeroed == [size |-> kHeaderSize + Len(payload), magic |-> kMagicNumber,
                 version_hash |-> VersionHash, source_hash |-> source_hash,
                 flags_hash |-> FlagHash, payload_length |-> kHeaderSize + Len(payload),
                 checksum |-> 0, payload |-> payload]
  IN [zeroed EXCEPT !.checksum = IF verify THEN Checksum(ChecksummedContent(zeroed))
                                 ELSE 0]

WriteSerializedCodeData(payload, source_hash, verify) ==
  LET zeroed == [size |-> kHeaderSize + Len(payload), magic |-> kMagicNumber,
                 version_hash |-> VersionHash, source_hash |-> source_hash,
                 flags_hash |-> FlagHash, payload_length |-> Len(payload),
                 checksum |-> 0, payload |-> payload]
  IN [zeroed EXCEPT !.checksum = IF verify THEN Checksum(ChecksummedContent(zeroed))
                                 ELSE 0]

(***************************************************************************)
(* Cache entries a caller may hand in.                                     *)
(***************************************************************************)
Bytes(n) == [i \in 1..n |-> 1]

SourceHashes == {SourceHash(s, m) : s \in Sources, m \in BOOLEAN}

\* What the serializer wrote, for any source and a padded payload.
WrittenEntries(verify) ==
  { WriteSerializedCodeData(Bytes(kPointerAlignment * MaxPayloadWords), sh, verify) :
      sh \in SourceHashes }

\* An entry as written, or with one field or its length damaged on the way.
Tampered(b) ==
  { b,
    [b EXCEPT !.size = kHeaderSize - 1, !.payload = <<>>],
    [b EXCEPT !.magic = b.magic + 1],
    [b EXCEPT !.version_hash = b.version_hash + 1],
    [b EXCEPT !.flags_hash = b.flags_hash + 1],
    [b EXCEPT !.payload_length = b.payload_length + 1],
    [b EXCEPT !.checksum = (b.checksum + 1) % kLimb],
    [b EXCEPT !.size = b.size + 1, !.payload = Append(b.payload, 1)] }
  \cup (IF b.payload = <<>> THEN {}
        ELSE {[b EXCEPT !.size = b.size - 1,
                        !.payload = SubSeq(b.payload, 1, Len(b.payload) - 1)]})

\* Any combination of header values and sizes around the header size.
Buffers ==
  { [size |-> sz, magic |-> mg, version_hash |-> vh, source_hash |-> sh,
     flags_hash |-> fh, payload_length |-> pl, checksum |-> ck,
     payload |-> Bytes(IF sz < kHeaderSize THEN 0 ELSE sz - kHeaderSize)] :
      sz \in (kHeaderSize - 1)..(kHeaderSize + kPointerAlignment * MaxPayloadWords),
      mg \in {kMagicNumber, kMagicNumber + 1},
      vh \in {VersionHash, VersionHash + 1},
      sh \in SourceHashes,
      fh \in {FlagHash, FlagHash + 1},
      pl \in 0..(kPointerAlignment * MaxPayloadWords + 1),
      ck \in {0, 1} }

\* The stored checksum is the right one (+0) or a wrong one (+1).
WithChecksum(b) ==
  [b EXCEPT !.checksum = (Checksum(ChecksummedContent(b)) + b.checksum) % kLimb]

\* No Serialize call has been made.
NoSerializer == [pc |-> "none"]

\* No AlignedCachedData is followed on its own.
NoAligned == [pc |-> "none"]

\* No Sign or Verify object is followed.
NoSign == [pc |-> "none"]

\* No call has returned yet.
NoOutcome ==
  [kind |-> "none", id |-> 0, source |-> empty_string, is_module |-> FALSE,
   alloc_ok |-> TRUE, rej0 |-> FALSE, reason |-> kSuccess, graph |-> <<>>,
   rej1 |-> FALSE, reads |-> {}, steps |-> <<>>, list0 |-> <<>>, list1 |-> <<>>,
   fin0 |-> <<>>, fin1 |-> <<>>, stored |-> kSuccess, finish_reads |-> {}]

MainIdle ==
  [pc |-> "idle", kind |-> "none", w |-> "none", id |-> 0, source |-> empty_string,
   is_module |-> FALSE, rej0 |-> FALSE,
   sanity_check_result |-> kSuccess, scd |-> <<>>, result |-> 0,
   regular_handle |-> FALSE, reads |-> {}, alloc_ok |-> TRUE, steps |-> <<>>,
   list0 |-> <<>>, fin0 |-> <<>>, stored |-> kSuccess, finish_reads |-> {}]

\* A default-constructed OffThreadDeserializeData, owned by nobody.
DataNone ==
  [state |-> "none", w |-> "none", id |-> 0, rej0 |-> FALSE, alloc_ok |-> TRUE,
   sanity_check_result |-> kSuccess, maybe_result |-> 0, scripts |-> <<>>,
   has_persistent_handles |-> FALSE, persistent_handles |-> {}, reads |-> {},
   steps |-> <<>>]

WorkerNone ==
  [pc |-> "none", w |-> "none", scd |-> <<>>, local_result |-> 0,
   local_handles |-> {}, result |-> DataNone]

Quiet ==
  /\ rejected = [w \in Wrappers |-> FALSE]
  /\ main = MainIdle
  /\ worker = WorkerNone
  /\ data = DataNone
  /\ heap = <<>>
  /\ script_list = <<>>
  /\ samples = <<>>
  /\ finalized = <<>>
  /\ dchecks = {}
  /\ ret = NoOutcome
  /\ ncalls = 0
  /\ chk = <<>>
  /\ enc = NoSerializer
  /\ acd = NoAligned
  /\ sign = NoSign

Init ==
  /\ flag_verify \in BOOLEAN
  /\ flag_stress \in BOOLEAN
  /\ origin_options \in BOOLEAN
  /\ buffer \in UNION {Tampered(b) : b \in WrittenEntries(flag_verify)}
  /\ Quiet

(***************************************************************************)
(* What a returning call reports.                                          *)
(***************************************************************************)
Graph(h, result) == IF result = 0 THEN <<>> ELSE <<h[result]>>

Outcome(m, reason, result, h, rej, list, fin) ==
  [kind |-> m.kind, id |-> m.id, source |-> m.source, is_module |-> m.is_module,
   alloc_ok |-> m.alloc_ok, rej0 |-> m.rej0, reason |-> reason,
   graph |-> Graph(h, result), rej1 |-> rej[m.w], reads |-> m.reads,
   steps |-> m.steps, list0 |-> m.list0, list1 |-> list, fin0 |-> m.fin0, fin1 |-> fin,
   stored |-> m.stored, finish_reads |-> m.finish_reads]

\* A wrapper is in use from the call that takes it to the return of its decode.
\* A call takes the first wrapper not in use.
Busy(w) == main.w = w \/ worker.w = w \/ data.w = w

Available(w) ==
  /\ ~Busy(w)
  /\ \A i \in 1..Len(WrapperOrder) :
       (\E j \in (i + 1)..Len(WrapperOrder) : WrapperOrder[j] = w) => Busy(WrapperOrder[i])

(***************************************************************************)
(* CodeSerializer::Deserialize                                             *)
(***************************************************************************)
\* Entry, FLAG_stress_background_compile off: the call starts the on-thread path.
Deserialize(w, source, is_module) ==
  /\ main.pc = "idle" /\ ncalls < MaxCalls /\ ~flag_stress /\ Available(w)
  /\ ncalls' = ncalls + 1
  /\ main' = [MainIdle EXCEPT !.pc = "D_check", !.kind = "Deserialize", !.w = w,
                              !.id = ncalls + 1, !.source = source,
                              !.is_module = is_module, !.rej0 = rejected[w],
                              !.list0 = script_list, !.fin0 = finalized]
  /\ UNCHANGED <<config, rejected, worker, data, heap,
                 script_list, samples, finalized, dchecks, ret, chk, enc, acd, sign>>

\* Entry, FLAG_stress_background_compile on: thread.Start(), then thread.Join().
DeserializeStress(w, source, is_module) ==
  /\ main.pc = "idle" /\ ncalls < MaxCalls /\ flag_stress /\ Available(w)
  /\ worker.pc = "none" /\ data.state = "none"
  /\ ncalls' = ncalls + 1
  /\ main' = [MainIdle EXCEPT !.pc = "D_join", !.kind = "OffThread", !.w = w,
                              !.id = ncalls + 1, !.source = source,
                              !.is_module = is_module, !.rej0 = rejected[w],
                              !.list0 = script_list, !.fin0 = finalized]
  /\ worker' = [WorkerNone EXCEPT !.pc = "S_check", !.w = w,
                                  !.result = [DataNone EXCEPT !.state = "building",
                                                              !.w = w, !.id = ncalls + 1,
                                                              !.rej0 = rejected[w]]]
  /\ UNCHANGED <<config, rejected, data, heap,
                 script_list, samples, finalized, dchecks, ret, chk, enc, acd, sign>>

\* thread.Finalize() without thread.Join(): the data is taken while Run() may
\* still be running, and the thread is left to itself.
DeserializeJoin_NoJoin ==
  /\ main.pc = "D_join" /\ worker.pc # "none"
  /\ main' = [main EXCEPT !.pc = "F_check"]
  /\ data' = [worker.result EXCEPT !.state = "finishing"]
  /\ UNCHANGED <<config, rejected, worker, heap, script_list,
                 samples, finalized, dchecks, ret, ncalls, chk, enc, acd, sign>>

\* thread.Join() returns once Run() has returned; thread.Finalize() moves
\* off_thread_data_ into FinishOffThreadDeserialize.
DeserializeJoin ==
  /\ main.pc = "D_join" /\ worker.pc = "returned"
  /\ main' = [main EXCEPT !.pc = "F_check"]
  /\ data' = [worker.result EXCEPT !.state = "finishing"]
  /\ worker' = WorkerNone
  /\ UNCHANGED <<config, rejected, heap, script_list,
                 samples, finalized, dchecks, ret, ncalls, chk, enc, acd, sign>>

\* FromCachedData, and the return on a failed check.
DeserializeCheck ==
  /\ main.pc = "D_check"
  /\ LET scd == FromCachedData(buffer, rejected[main.w],
                               SourceHash(main.source, main.is_module), flag_verify)
         m == [main EXCEPT !.sanity_check_result = scd.rejection_result,
                           !.scd = scd.scd, !.reads = scd.reads,
                           !.steps = Append(main.steps, "check")]
     IN /\ rejected' = [rejected EXCEPT ![main.w] = scd.rejected]
        /\ IF scd.rejection_result # kSuccess
           THEN /\ dchecks' = dchecks \cup
                      (IF rejected'[main.w] THEN {} ELSE {"Deserialize:rejected"})
                /\ samples' = Append(samples, scd.rejection_result)
                /\ ret' = Outcome(m, scd.rejection_result, 0, heap, rejected',
                                  script_list, finalized)
                /\ main' = MainIdle
           ELSE /\ main' = [m EXCEPT !.pc = "D_deserialize"]
                /\ UNCHANGED <<dchecks, samples, ret>>
  /\ UNCHANGED <<config, worker, data, heap, script_list,
                 finalized, ncalls, chk, enc, acd, sign>>

\* DeserializeObjects that abandons the call when the deserializer fails.
DeserializeObjects_CancelsOnFailure(alloc_ok) ==
  /\ main.pc = "D_deserialize"
  /\ LET d == DeserializeSharedFunctionInfo(main.scd[1], main.source, alloc_ok, main.id)
         m == [main EXCEPT !.result = d.maybe_result, !.alloc_ok = alloc_ok,
                           !.steps = Append(main.steps, "deserialize")]
     IN /\ heap' = heap @@ d.allocated
        /\ main' = [m EXCEPT !.pc = IF d.maybe_result = 0 THEN "cancelled"
                                    ELSE "D_finalize"]
  /\ UNCHANGED <<config, rejected, worker, data, script_list,
                 samples, finalized, dchecks, ret, ncalls, chk, enc, acd, sign>>

\* ObjectDeserializer::DeserializeSharedFunctionInfo, and the return when it fails.
DeserializeObjects(alloc_ok) ==
  /\ main.pc = "D_deserialize"
  /\ LET d == DeserializeSharedFunctionInfo(main.scd[1], main.source, alloc_ok, main.id)
         m == [main EXCEPT !.result = d.maybe_result, !.alloc_ok = alloc_ok,
                           !.steps = Append(main.steps, "deserialize")]
     IN /\ heap' = heap @@ d.allocated
        /\ IF d.maybe_result = 0
           THEN /\ ret' = Outcome(m, main.sanity_check_result, 0, heap', rejected,
                                  script_list, finalized)
                /\ main' = MainIdle
           ELSE /\ main' = [m EXCEPT !.pc = "D_finalize"]
                /\ UNCHANGED ret
  /\ dchecks' = dchecks \cup PayloadDChecks(main.scd[1])
  /\ UNCHANGED <<config, rejected, worker, data, script_list,
                 samples, finalized, ncalls, chk, enc, acd, sign>>

\* FinalizeDeserialization, and the return of the result.
DeserializeFinalize ==
  /\ main.pc = "D_finalize"
  /\ finalized' = Append(finalized, main.result)
  /\ LET m == [main EXCEPT !.steps = Append(main.steps, "finalize")]
     IN ret' = Outcome(m, main.sanity_check_result, main.result, heap, rejected,
                       script_list, finalized')
  /\ main' = MainIdle
  /\ UNCHANGED <<config, rejected, worker, data, heap,
                 script_list, samples, dchecks, ncalls, chk, enc, acd, sign>>

(***************************************************************************)
(* The off-thread pair as its callers use it: a background task runs       *)
(* StartDeserializeOffThread, its result is kept until the controlling     *)
(* thread, knowing the source, calls FinishOffThreadDeserialize.           *)
(***************************************************************************)
StartOffThread(w) ==
  /\ main.pc = "idle" /\ ncalls < MaxCalls /\ Available(w)
  /\ worker.pc = "none"
  /\ ncalls' = ncalls + 1
  /\ worker' = [WorkerNone EXCEPT !.pc = "S_check", !.w = w,
                                  !.result = [DataNone EXCEPT !.state = "building",
                                                              !.w = w, !.id = ncalls + 1,
                                                              !.rej0 = rejected[w]]]
  /\ UNCHANGED <<config, rejected, main, data, heap,
                 script_list, samples, finalized, dchecks, ret, chk, enc, acd, sign>>

\* The background task is over; its OffThreadDeserializeData waits for the source.
Collect ==
  /\ main.pc = "idle" /\ worker.pc = "returned" /\ data.state = "none"
  /\ data' = [worker.result EXCEPT !.state = "pending"]
  /\ worker' = WorkerNone
  /\ UNCHANGED <<config, rejected, main, heap, script_list,
                 samples, finalized, dchecks, ret, ncalls, chk, enc, acd, sign>>

FinishOffThread(source, is_module) ==
  /\ main.pc = "idle" /\ data.state = "pending"
  /\ main' = [MainIdle EXCEPT !.pc = "F_check", !.kind = "OffThread", !.w = data.w,
                              !.id = data.id, !.source = source,
                              !.is_module = is_module, !.rej0 = data.rej0,
                              !.list0 = script_list, !.fin0 = finalized]
  /\ data' = [data EXCEPT !.state = "finishing"]
  /\ UNCHANGED <<config, rejected, worker, heap, script_list,
                 samples, finalized, dchecks, ret, ncalls, chk, enc, acd, sign>>

(***************************************************************************)
(* CodeSerializer::StartDeserializeOffThread, on the background thread     *)
(***************************************************************************)
\* StartCheck without the early exit: the decoder runs whatever the check said.
StartCheck_NoEarlyExit ==
  /\ worker.pc = "S_check"
  /\ LET scd == FromCachedDataWithoutSource(buffer, rejected[worker.w], flag_verify)
         res == [worker.result EXCEPT !.sanity_check_result = scd.rejection_result,
                                      !.reads = scd.reads,
                                      !.steps = Append(worker.result.steps, "check")]
     IN /\ rejected' = [rejected EXCEPT ![worker.w] = scd.rejected]
        /\ dchecks' = dchecks
             \cup (IF worker.local_handles = {} THEN {} ELSE {"Start:HasPersistentHandles"})
        /\ worker' = [worker EXCEPT !.result = res, !.scd = <<buffer>>,
                                    !.pc = "S_deserialize"]
  /\ UNCHANGED <<config, main, data, heap, script_list,
                 samples, finalized, ret, ncalls, chk, enc, acd, sign>>

\* StartCheck that adds the reason of a failed check to the counter.
StartCheck_ReportsReason ==
  /\ worker.pc = "S_check"
  /\ LET scd == FromCachedDataWithoutSource(buffer, rejected[worker.w], flag_verify)
         res == [worker.result EXCEPT !.sanity_check_result = scd.rejection_result,
                                      !.reads = scd.reads,
                                      !.steps = Append(worker.result.steps, "check")]
     IN /\ rejected' = [rejected EXCEPT ![worker.w] = scd.rejected]
        /\ dchecks' = dchecks
             \cup (IF worker.local_handles = {} THEN {} ELSE {"Start:HasPersistentHandles"})
             \cup (IF scd.rejection_result # kSuccess /\ ~rejected'[worker.w]
                   THEN {"Start:rejected"} ELSE {})
        /\ samples' = IF scd.rejection_result # kSuccess
                      THEN Append(samples, scd.rejection_result) ELSE samples
        /\ worker' = [worker EXCEPT !.result = res, !.scd = scd.scd,
                        !.pc = IF scd.rejection_result # kSuccess
                               THEN "returned" ELSE "S_deserialize"]
  /\ UNCHANGED <<config, main, data, heap, script_list,
                 finalized, ret, ncalls, chk, enc, acd, sign>>

\* FromCachedDataWithoutSource, and the early exit on a failed check.
StartCheck ==
  /\ worker.pc = "S_check"
  /\ LET scd == FromCachedDataWithoutSource(buffer, rejected[worker.w], flag_verify)
         res == [worker.result EXCEPT !.sanity_check_result = scd.rejection_result,
                                      !.reads = scd.reads,
                                      !.steps = Append(worker.result.steps, "check")]
     IN /\ rejected' = [rejected EXCEPT ![worker.w] = scd.rejected]
        /\ dchecks' = dchecks
             \cup (IF worker.local_handles = {} THEN {} ELSE {"Start:HasPersistentHandles"})
             \cup (IF scd.rejection_result # kSuccess /\ ~rejected'[worker.w]
                   THEN {"Start:rejected"} ELSE {})
        /\ worker' = [worker EXCEPT !.result = res, !.scd = scd.scd,
                        !.pc = IF scd.rejection_result # kSuccess
                               THEN "returned" ELSE "S_deserialize"]
  /\ UNCHANGED <<config, main, data, heap, script_list,
                 samples, finalized, ret, ncalls, chk, enc, acd, sign>>

\* OffThreadObjectDeserializer::DeserializeSharedFunctionInfo into result.scripts.
StartObjects(alloc_ok) ==
  /\ worker.pc = "S_deserialize"
  /\ LET d == OffThreadDeserializeSharedFunctionInfo(worker.scd[1], alloc_ok,
                                                     worker.result.id)
     IN /\ heap' = heap @@ d.allocated
        /\ worker' = [worker EXCEPT
             !.pc = "S_detach",
             !.local_result = d.maybe_result,
             !.local_handles = {<<"script", d.scripts[i]>> : i \in 1..Len(d.scripts)},
             !.result = [worker.result EXCEPT
                           !.scripts = d.scripts, !.alloc_ok = alloc_ok,
                           !.steps = Append(worker.result.steps, "deserialize")]]
  /\ dchecks' = dchecks \cup PayloadDChecks(worker.scd[1])
  /\ UNCHANGED <<config, rejected, main, data, script_list,
                 samples, finalized, ret, ncalls, chk, enc, acd, sign>>

\* StartDetach that also adds the deserialized scripts to the script list.
StartDetach_AddsToScriptList ==
  /\ worker.pc = "S_detach"
  /\ script_list' = script_list \o worker.result.scripts
  /\ LET handles == worker.local_handles \cup
                      (IF worker.local_result = 0 THEN {}
                       ELSE {<<"sfi", worker.local_result>>})
     IN worker' = [worker EXCEPT
          !.pc = "returned",
          !.local_handles = {},
          !.result = [worker.result EXCEPT
                        !.maybe_result = worker.local_result,
                        !.has_persistent_handles = TRUE,
                        !.persistent_handles = handles,
                        !.steps = Append(worker.result.steps, "detach")]]
  /\ UNCHANGED <<config, rejected, main, data, heap,
                 samples, finalized, dchecks, ret, ncalls, chk, enc, acd, sign>>

\* NewPersistentMaybeHandle and DetachPersistentHandles, and the return.
StartDetach ==
  /\ worker.pc = "S_detach"
  /\ LET handles == worker.local_handles \cup
                      (IF worker.local_result = 0 THEN {}
                       ELSE {<<"sfi", worker.local_result>>})
     IN worker' = [worker EXCEPT
          !.pc = "returned",
          !.local_handles = {},
          !.result = [worker.result EXCEPT
                        !.maybe_result = worker.local_result,
                        !.has_persistent_handles = TRUE,
                        !.persistent_handles = handles,
                        !.steps = Append(worker.result.steps, "detach")]]
  /\ UNCHANGED <<config, rejected, main, data, heap,
                 script_list, samples, finalized, dchecks, ret, ncalls, chk, enc, acd, sign>>

(***************************************************************************)
(* CodeSerializer::FinishOffThreadDeserialize, on the controlling thread   *)
(***************************************************************************)
\* FromPartiallySanityCheckedCachedData, and the return on a failed check.
FinishCheck ==
  /\ main.pc = "F_check"
  /\ LET scd == FromPartiallySanityCheckedCachedData(
                  buffer, rejected[main.w], SourceHash(main.source, main.is_module),
                  data.sanity_check_result)
         m == [main EXCEPT !.sanity_check_result = scd.rejection_result,
                           !.scd = scd.scd, !.reads = data.reads \cup scd.reads,
                           !.alloc_ok = data.alloc_ok,
                           !.stored = data.sanity_check_result,
                           !.finish_reads = scd.reads,
                           !.steps = Append(main.steps, "check")]
     IN /\ rejected' = [rejected EXCEPT ![main.w] = scd.rejected]
        /\ IF scd.rejection_result # kSuccess
           THEN /\ dchecks' = dchecks \cup scd.dchecks
                      \cup (IF data.maybe_result # 0
                               /\ scd.rejection_result # kSourceMismatch
                            THEN {"Finish:result_implies_source_mismatch"} ELSE {})
                      \cup (IF scd.rejection_result # data.sanity_check_result
                               /\ scd.rejection_result # kSourceMismatch
                            THEN {"Finish:changed_implies_source_mismatch"} ELSE {})
                      \cup (IF rejected'[main.w] THEN {} ELSE {"Finish:rejected"})
                /\ samples' = Append(samples, scd.rejection_result)
                /\ ret' = Outcome(m, scd.rejection_result, 0, heap, rejected',
                                  script_list, finalized)
                /\ main' = MainIdle
                /\ data' = DataNone
           ELSE /\ dchecks' = dchecks \cup scd.dchecks
                /\ main' = [m EXCEPT !.pc = "F_result"]
                /\ UNCHANGED <<samples, ret, data>>
  /\ UNCHANGED <<config, worker, heap, script_list,
                 finalized, ncalls, chk, enc, acd, sign>>

\* FinishResult that runs FinalizeDeserialization before returning no result.
FinishResult_FinalizesAnyway ==
  /\ main.pc = "F_result"
  /\ IF data.maybe_result = 0
     THEN /\ finalized' = Append(finalized, main.id)
          /\ ret' = Outcome(main, main.sanity_check_result, 0, heap, rejected,
                              script_list, finalized')
          /\ main' = MainIdle
          /\ data' = DataNone
     ELSE /\ main' = [main EXCEPT !.pc = "F_handle", !.result = data.maybe_result]
          /\ UNCHANGED <<ret, data, finalized>>
  /\ UNCHANGED <<config, rejected, worker, heap, script_list,
                 samples, dchecks, ncalls, chk, enc, acd, sign>>

\* data.maybe_result.ToHandle(&result), and the return when there is no result.
FinishResult ==
  /\ main.pc = "F_result"
  /\ IF data.maybe_result = 0
     THEN /\ ret' = Outcome(main, main.sanity_check_result, 0, heap, rejected,
                              script_list, finalized)
          /\ main' = MainIdle
          /\ data' = DataNone
     ELSE /\ main' = [main EXCEPT !.pc = "F_handle", !.result = data.maybe_result]
          /\ UNCHANGED <<ret, data>>
  /\ UNCHANGED <<config, rejected, worker, heap, script_list,
                 samples, finalized, dchecks, ncalls, chk, enc, acd, sign>>

\* FinishHandle that goes on to the script list without the source fix-up.
FinishHandle_SkipsSource ==
  /\ main.pc = "F_handle"
  /\ dchecks' = dchecks \cup
       (IF data.has_persistent_handles /\ <<"sfi", main.result>> \in data.persistent_handles
        THEN {} ELSE {"Finish:Contains(result)"})
  /\ main' = [main EXCEPT !.pc = "F_scripts", !.regular_handle = TRUE,
                          !.steps = Append(main.steps, "handle")]
  /\ UNCHANGED <<config, rejected, worker, data, heap,
                 script_list, samples, finalized, ret, ncalls, chk, enc, acd, sign>>

\* Change the result persistent handle into a regular handle.
FinishHandle ==
  /\ main.pc = "F_handle"
  /\ dchecks' = dchecks \cup
       (IF data.has_persistent_handles /\ <<"sfi", main.result>> \in data.persistent_handles
        THEN {} ELSE {"Finish:Contains(result)"})
  /\ main' = [main EXCEPT !.pc = "F_source", !.regular_handle = TRUE,
                          !.steps = Append(main.steps, "handle")]
  /\ UNCHANGED <<config, rejected, worker, data, heap,
                 script_list, samples, finalized, ret, ncalls, chk, enc, acd, sign>>

\* FinishSource that leaves the empty string on the script.
FinishSource_KeepsEmptySource ==
  /\ main.pc = "F_source"
  /\ dchecks' = dchecks
       \cup (IF Len(data.scripts) = 1 THEN {} ELSE {"Finish:scripts.size"})
       \cup (IF Len(data.scripts) >= 1 /\ data.scripts[1] = main.result
             THEN {} ELSE {"Finish:script"})
       \cup (IF heap[main.result].source = empty_string THEN {} ELSE {"Finish:source"})
  /\ main' = [main EXCEPT !.pc = "F_scripts", !.steps = Append(main.steps, "source")]
  /\ UNCHANGED <<config, rejected, worker, data, heap, script_list,
                 samples, finalized, ret, ncalls, chk, enc, acd, sign>>

\* Fix up the source on the script (the script of result is the one allocated with it).
FinishSource ==
  /\ main.pc = "F_source"
  /\ dchecks' = dchecks
       \cup (IF Len(data.scripts) = 1 THEN {} ELSE {"Finish:scripts.size"})
       \cup (IF Len(data.scripts) >= 1 /\ data.scripts[1] = main.result
             THEN {} ELSE {"Finish:script"})
       \cup (IF heap[main.result].source = empty_string THEN {} ELSE {"Finish:source"})
  /\ heap' = [heap EXCEPT ![main.result].source = main.source]
  /\ main' = [main EXCEPT !.pc = "F_scripts", !.steps = Append(main.steps, "source")]
  /\ UNCHANGED <<config, rejected, worker, data, script_list,
                 samples, finalized, ret, ncalls, chk, enc, acd, sign>>

\* FinishScripts that puts the deserialized scripts in front of the list.
FinishScripts_Prepends ==
  /\ main.pc = "F_scripts"
  /\ dchecks' = dchecks \cup
       (IF \A i \in 1..Len(data.scripts) :
              <<"script", data.scripts[i]>> \in data.persistent_handles
        THEN {} ELSE {"Finish:Contains(script)"})
  /\ script_list' = data.scripts \o script_list
  /\ main' = [main EXCEPT !.pc = "F_finalize", !.steps = Append(main.steps, "scripts")]
  /\ UNCHANGED <<config, rejected, worker, data, heap,
                 samples, finalized, ret, ncalls, chk, enc, acd, sign>>

\* Fix up the script list to include the newly deserialized scripts.
FinishScripts ==
  /\ main.pc = "F_scripts"
  /\ dchecks' = dchecks \cup
       (IF \A i \in 1..Len(data.scripts) :
              <<"script", data.scripts[i]>> \in data.persistent_handles
        THEN {} ELSE {"Finish:Contains(script)"})
  /\ script_list' = script_list \o data.scripts
  /\ main' = [main EXCEPT !.pc = "F_finalize", !.steps = Append(main.steps, "scripts")]
  /\ UNCHANGED <<config, rejected, worker, data, heap,
                 samples, finalized, ret, ncalls, chk, enc, acd, sign>>

\* FinalizeDeserialization, and the return of the result.
FinishFinalize ==
  /\ main.pc = "F_finalize"
  /\ finalized' = Append(finalized, main.result)
  /\ LET m == [main EXCEPT !.steps = Append(main.steps, "finalize")]
     IN ret' = Outcome(m, main.sanity_check_result, main.result, heap, rejected,
                         script_list, finalized')
  /\ main' = MainIdle
  /\ data' = DataNone
  /\ UNCHANGED <<config, rejected, worker, heap, script_list,
                 samples, dchecks, ncalls, chk, enc, acd, sign>>

Next ==
  \/ \E w \in Wrappers, source \in Sources : Deserialize(w, source, origin_options)
  \/ \E w \in Wrappers, source \in Sources : DeserializeStress(w, source, origin_options)
  \/ DeserializeJoin
  \/ DeserializeCheck
  \/ \E alloc_ok \in BOOLEAN : DeserializeObjects(alloc_ok)
  \/ DeserializeFinalize
  \/ \E w \in Wrappers : StartOffThread(w)
  \/ Collect
  \/ \E source \in Sources : FinishOffThread(source, origin_options)
  \/ StartCheck
  \/ \E alloc_ok \in BOOLEAN : StartObjects(alloc_ok)
  \/ StartDetach
  \/ FinishCheck
  \/ FinishResult
  \/ FinishHandle
  \/ FinishSource
  \/ FinishScripts
  \/ FinishFinalize

Spec == Init /\ [][Next]_vars

(***************************************************************************)
(* The same calls when the threads are scheduled fairly: a thread that is  *)
(* inside a call takes its next step.  Whether and when a caller issues a  *)
(* call, or hands the data of a returned Start to Finish, is left open.    *)
(***************************************************************************)
\* The steps of the controlling thread inside Deserialize and Finish.
MainStep ==
  \/ DeserializeJoin
  \/ DeserializeCheck
  \/ \E alloc_ok \in BOOLEAN : DeserializeObjects(alloc_ok)
  \/ DeserializeFinalize
  \/ FinishCheck
  \/ FinishResult
  \/ FinishHandle
  \/ FinishSource
  \/ FinishScripts
  \/ FinishFinalize

\* The steps of the background thread inside Start.
WorkerStep ==
  \/ StartCheck
  \/ \E alloc_ok \in BOOLEAN : StartObjects(alloc_ok)
  \/ StartDetach

\* The entry written for the longest source, as written or with a wrong magic number:
\* with the sources the callers pass, every outcome of a decode can happen.  The
\* checksum is not verified (FLAG_verify_snapshot_checksum off).
InitLive ==
  /\ flag_verify = FALSE
  /\ flag_stress \in BOOLEAN
  /\ origin_options = FALSE
  /\ LET written == WriteSerializedCodeData(Bytes(kPointerAlignment * MaxPayloadWords),
                                            SourceHash(Bytes(MaxSourceLen), FALSE), FALSE)
     IN buffer \in {written, [written EXCEPT !.magic = written.magic + 1]}
  /\ Quiet

SpecLive == InitLive /\ [][Next]_vars /\ WF_vars(MainStep) /\ WF_vars(WorkerStep)

(***************************************************************************)
(* The sanity checks on their own, applied to any buffer and any expected  *)
(* source hash.                                                            *)
(***************************************************************************)
InitCheck ==
  /\ flag_verify \in BOOLEAN
  /\ flag_stress = FALSE
  /\ origin_options = FALSE
  /\ buffer \in {WithChecksum(b) : b \in Buffers}
  /\ Quiet

ApplyChecks(expected_source_hash) ==
  /\ chk = <<>>
  /\ chk' = <<[expected |-> expected_source_hash,
               without |-> SanityCheckWithoutSource(buffer, flag_verify),
               just |-> SanityCheckJustSource(buffer, expected_source_hash),
               full |-> SanityCheck(buffer, expected_source_hash, flag_verify)]>>
  /\ UNCHANGED <<config, rejected, main, worker, data, heap, script_list, samples,
                 finalized, dchecks, ret, ncalls, enc, acd, sign>>

NextCheck == \E expected_source_hash \in SourceHashes : ApplyChecks(expected_source_hash)

SpecCheck == InitCheck /\ [][NextCheck]_vars

(***************************************************************************)
(* SourceHash on its own, applied to two sources of any length a String    *)
(* can have (an int, so below 2^31) and any origin options.                *)
(***************************************************************************)
SourceLengths ==
  {<<high, low>> : high \in {0, 1, kModuleFlagMask[1] \div 2, kModuleFlagMask[1] - 1},
                   low \in {0, 1, kLimb - 1}}

InitHash ==
  /\ flag_verify = FALSE
  /\ flag_stress = FALSE
  /\ origin_options = FALSE
  /\ buffer = WriteSerializedCodeData(Bytes(kPointerAlignment), U32(0), FALSE)
  /\ Quiet

ApplySourceHash(length_a, module_a, length_b, module_b) ==
  /\ chk = <<>>
  /\ chk' = <<[a |-> [source_length |-> length_a, is_module |-> module_a,
                      result |-> SourceHashOfLength(length_a, module_a)],
               b |-> [source_length |-> length_b, is_module |-> module_b,
                      result |-> SourceHashOfLength(length_b, module_b)]]>>
  /\ UNCHANGED <<config, rejected, main, worker, data, heap, script_list, samples,
                 finalized, dchecks, ret, ncalls, enc, acd, sign>>

NextHash ==
  \E length_a \in SourceLengths, length_b \in SourceLengths,
     module_a \in BOOLEAN, module_b \in BOOLEAN :
       ApplySourceHash(length_a, module_a, length_b, module_b)

SpecHash == InitHash /\ [][NextHash]_vars

(***************************************************************************)
(* Decodes of one entry whose bytes are damaged and restored between the   *)
(* calls: the entry written for a source of 42 characters and a payload of *)
(* 128 bytes, decoded with that source.                                    *)
(***************************************************************************)
ScenarioSource == Bytes(42)

\* The entry the writer produces for the scenario, per checksum setting.
ScenarioEntries ==
  [verify \in BOOLEAN |->
     WriteSerializedCodeData(Bytes(128), SourceHash(ScenarioSource, FALSE), verify)]

ScenarioEntry(verify) == ScenarioEntries[verify]

\* The header field that holds the byte at an offset of the binary layout.
FieldAtOffset(offset) ==
  << "magic", "version_hash", "flags_hash", "source_hash", "payload_length",
     "checksum" >>[(offset \div 4) + 1]

\* The first (lowest) byte of a field.
ByteAtOffset(b, offset) ==
  IF FieldAtOffset(offset) = "source_hash" THEN b.source_hash[2] % 256
  ELSE b[FieldAtOffset(offset)] % 256

\* The entry with the byte at the first offset of a field replaced.
WithByteAtOffset(b, offset, value) ==
  LET field == FieldAtOffset(offset)
  IN IF field = "source_hash"
     THEN [b EXCEPT !.source_hash =
                      <<b.source_hash[1], b.source_hash[2] - (b.source_hash[2] % 256) + value>>]
     ELSE [b EXCEPT ![field] = b[field] - (b[field] % 256) + value]

InitScenario ==
  /\ flag_verify \in BOOLEAN
  /\ flag_stress = FALSE
  /\ origin_options = FALSE
  /\ buffer = ScenarioEntry(flag_verify)
  /\ Quiet

\* The byte at an offset gets another value; chk remembers where, and after how
\* many calls.
CorruptByte(offset, value) ==
  /\ main.pc = "idle" /\ buffer = ScenarioEntry(flag_verify)
  /\ value # ByteAtOffset(buffer, offset)
  /\ buffer' = WithByteAtOffset(buffer, offset, value)
  /\ chk' = <<[offset |-> offset, calls |-> ncalls]>>
  /\ UNCHANGED <<flag_verify, flag_stress, origin_options, rejected, main, worker,
                 data, heap, script_list, samples, finalized, dchecks, ret, ncalls, enc, acd, sign>>

RestoreByte ==
  /\ main.pc = "idle" /\ buffer # ScenarioEntry(flag_verify)
  /\ buffer' = ScenarioEntry(flag_verify)
  /\ chk' = <<>>
  /\ UNCHANGED <<flag_verify, flag_stress, origin_options, rejected, main, worker,
                 data, heap, script_list, samples, finalized, dchecks, ret, ncalls, enc, acd, sign>>

NextScenario ==
  \/ \E offset \in {0, 12}, value \in 0..255 : CorruptByte(offset, value)
  \/ RestoreByte
  \/ \E w \in Wrappers : Deserialize(w, ScenarioSource, FALSE)
  \/ DeserializeCheck
  \/ \E alloc_ok \in BOOLEAN : DeserializeObjects(alloc_ok)
  \/ DeserializeFinalize

SpecScenario == InitScenario /\ [][NextScenario]_vars

(***************************************************************************)
(* CodeSerializer (46-232).  The heap is a set of named records, each with *)
(* a kind and a sequence of fields that point to records.  The serializer  *)
(* runs to completion on one thread; one step here is one call of          *)
(* SerializeObjectImpl or one return from SerializeGeneric.                *)
(***************************************************************************)
MaxEdges == 2

\* Bytecodes of the token stream and the capacity of the hot-object cache.
kNop == 0
kNewObject == 1
kBackref == 2
kAttachedReference == 3
kRootArray == 4
kHotObject == 5
kReadOnlyHeapRef == 6
kHotObjectCount == 2
kObjectAlignment == 8

IllegalKinds == {"Code", "Map", "JSGlobalProxy", "JSGlobalObject", "JSFunction", "Context"}

KindOrder ==
  << "SharedFunctionInfo", "Script", "String", "BytecodeArray", "FixedArray",
     "Oddball", "Symbol", "Code", "Map", "JSGlobalProxy", "JSGlobalObject",
     "JSFunction", "Context", "DebugInfo", "InterpreterData" >>

KindCode(kind) == CHOOSE i \in 1..Len(KindOrder) : KindOrder[i] = kind

\* The fields of a Script, in the order the generic encode visits them.
kSourceField == 1
kNameField == 2
kContextDataField == 3
kHostDefinedOptionsField == 4

\* The fields of a SharedFunctionInfo and of a DebugInfo.
kScriptOrDebugInfoField == 1
kFunctionDataField == 2
kDebugInfoScriptField == 1
kOriginalBytecodeField == 2
kDebugBytecodeField == 3

\* The fields of an InterpreterData.
kBytecodeArrayField == 1
kInterpreterTrampolineField == 2

\* A null DebugInfo or BytecodeArray local (179-180).
kNull == ""

\* The first position of x in a sequence, 0 when it is not there.
PositionIn(seq, x) ==
  IF \E i \in 1..Len(seq) : seq[i] = x
  THEN CHOOSE i \in 1..Len(seq) : seq[i] = x /\ \A j \in 1..(i - 1) : seq[j] # x
  ELSE 0

Without(seq, x) == SelectSeq(seq, LAMBDA y : y # x)

\* The script source the serializer hashes, and the source a caller decodes with.
ScriptSource == Bytes(MaxSourceLen)

\* The records of the heap a SharedFunctionInfo is serialized from: the function
\* (info), its script and bytecode, and one more record (extra) of any kind, which
\* the bytecode, the script's name field and the host-defined options may point to.
\* A function under debugging points to a DebugInfo in place of its script; with
\* break points set its active bytecode is the instrumented copy (debug_bytecode)
\* and the DebugInfo keeps the original.
HeapKinds(extra_kind) ==
  [undefined |-> "Oddball", uninitialized_symbol |-> "Symbol",
   empty_fixed_array |-> "FixedArray", info |-> "SharedFunctionInfo",
   script |-> "Script", source |-> "String", bytecode |-> "BytecodeArray",
   extra |-> extra_kind, native_context |-> "Context", host_options |-> "FixedArray",
   debug_info |-> "DebugInfo", debug_bytecode |-> "BytecodeArray"]

DebugStates == {"none", "debug_info", "instrumented"}

HeapFields(name, context_data, host_defined_options, pool, debug) ==
  [undefined |-> <<>>, uninitialized_symbol |-> <<>>, empty_fixed_array |-> <<>>,
   info |-> << IF debug = "none" THEN "script" ELSE "debug_info",
               IF debug = "instrumented" THEN "debug_bytecode" ELSE "bytecode" >>,
   script |-> <<"source", name, context_data, host_defined_options>>,
   source |-> <<>>, bytecode |-> pool, extra |-> <<>>, native_context |-> <<>>,
   host_options |-> <<"extra">>,
   debug_info |-> IF debug = "instrumented" THEN <<"script", "bytecode", "debug_bytecode">>
                  ELSE <<"script", "undefined", "undefined">>,
   debug_bytecode |-> pool]

\* A CodeSerializer before Serialize is called, with the heap it will walk.
NewSerializer(extra_kind, extra_root, extra_read_only, extra_elide, name, context_data, host_defined_options, pool, debug, asm) ==
  [pc |-> "idle",
   kind |-> HeapKinds(extra_kind),
   root_table |-> <<"undefined", "uninitialized_symbol", "empty_fixed_array">>
                  \o (IF extra_root THEN <<"extra">> ELSE <<>>),
   pages |-> << <<"undefined", "uninitialized_symbol", "empty_fixed_array">> >>
             \o (IF extra_read_only THEN << <<"extra">> >> ELSE <<>>),
   elide |-> IF extra_elide THEN {"extra"} ELSE {},
   asm |-> asm,
   interpreted_frames_native_stack |-> FALSE,
   fields |-> HeapFields(name, context_data, host_defined_options, pool, debug),
   fields0 |-> HeapFields(name, context_data, host_defined_options, pool, debug),
   source_hash |-> <<0, 0>>,
   sink |-> <<>>, reference_map |-> <<>>, attached |-> <<>>, hot |-> <<>>,
   stack |-> <<>>, step |-> "none", fatal |-> "",
   last |-> <<>>, visits |-> <<>>, cached_data |-> <<>>]

\* HotObjectsList: the most recently used records, the oldest first.
HotAdd(hot, obj) ==
  LET others == Without(hot, obj)
  IN IF Len(others) < kHotObjectCount THEN Append(others, obj)
     ELSE Append(Tail(others), obj)

\* A hot-object cache that is never consulted.
SerializeHotObject_NeverHits(e, obj) == [hit |-> FALSE, e |-> e]

\* Serializer::SerializeHotObject: a one-byte index into the hot-object cache.
SerializeHotObject(e, obj) ==
  LET index == PositionIn(e.hot, obj)
  IN IF index = 0 THEN [hit |-> FALSE, e |-> e]
     ELSE [hit |-> TRUE,
           e |-> [e EXCEPT !.sink = @ \o <<kHotObject, index - 1>>,
                           !.hot = HotAdd(@, obj), !.step = "hot"]]

\* Serializer::SerializeRoot: the index in the root table.
SerializeRoot(e, obj) ==
  LET index == PositionIn(e.root_table, obj)
  IN IF index = 0 THEN [hit |-> FALSE, e |-> e]
     ELSE [hit |-> TRUE,
           e |-> [e EXCEPT !.sink = @ \o <<kRootArray, index - 1>>, !.step = "root"]]

\* Serializer::SerializeBackReference: the index the reference map holds for a
\* record serialized earlier in this pass, or for the attached source string.
SerializeBackReference(e, obj) ==
  LET attached == PositionIn(e.attached, obj)
      index == PositionIn(e.reference_map, obj)
  IN IF attached # 0
     THEN [hit |-> TRUE,
           e |-> [e EXCEPT !.sink = @ \o <<kAttachedReference, attached - 1>>,
                           !.step = "back-reference"]]
     ELSE IF index # 0
     THEN [hit |-> TRUE,
           e |-> [e EXCEPT !.sink = @ \o <<kBackref, index - 1>>,
                           !.hot = HotAdd(@, obj), !.step = "back-reference"]]
     ELSE [hit |-> FALSE, e |-> e]

\* The page of the read-only space that holds obj, 0 when none does.
ReadOnlyPageOf(pages, obj) ==
  IF \E p \in 1..Len(pages) : PositionIn(pages[p], obj) # 0
  THEN CHOOSE p \in 1..Len(pages) : PositionIn(pages[p], obj) # 0
  ELSE 0

\* for (ReadOnlyPage* page : pages) { if (chunk == page) break; ++chunk_index; }
RECURSIVE ChunkIndex(_, _, _)
ChunkIndex(pages, chunk, chunk_index) ==
  IF chunk_index >= Len(pages) \/ chunk_index + 1 = chunk THEN chunk_index
  ELSE ChunkIndex(pages, chunk, chunk_index + 1)

\* SerializeReadOnlyObject that writes the number of the page, counted from one.
SerializeReadOnlyObject_PageNumber(e, obj) ==
  LET chunk == ReadOnlyPageOf(e.pages, obj)
  IN IF chunk = 0 THEN [hit |-> FALSE, e |-> e]
     ELSE LET chunk_offset == kObjectAlignment * PositionIn(e.pages[chunk], obj)
          IN [hit |-> TRUE,
              e |-> [e EXCEPT !.sink = @ \o <<kReadOnlyHeapRef, chunk, chunk_offset>>,
                              !.step = "read-only"]]

SerializeReadOnlyObject(e, obj) ==
  LET chunk == ReadOnlyPageOf(e.pages, obj)
  IN IF chunk = 0 THEN [hit |-> FALSE, e |-> e]
     ELSE LET chunk_index == ChunkIndex(e.pages, chunk, 0)
              chunk_offset == kObjectAlignment * PositionIn(e.pages[chunk], obj)
          IN [hit |-> TRUE,
              e |-> [e EXCEPT !.sink = @ \o <<kReadOnlyHeapRef, chunk_index, chunk_offset>>,
                              !.step = "read-only"]]

\* A failed CHECK: the process stops where it is.
Fatal(e, message) == [e EXCEPT !.pc = "fatal", !.fatal = message, !.step = "fatal"]

\* ObjectSerializer::Serialize up to its first field: the record gets the next
\* back-reference index and its kind is written; its fields follow, one
\* SerializeObject call each.
SerializeGeneric(e, obj, saved) ==
  [e EXCEPT !.reference_map = Append(@, obj),
            !.hot = HotAdd(@, obj),
            !.sink = @ \o <<kNewObject, KindCode(e.kind[obj]), Len(e.fields[obj])>>,
            !.stack = <<[obj |-> obj, todo |-> e.fields[obj], saved |-> saved]>> \o @,
            !.step = "full"]

\* SerializeObject(obj) as the next call of the running frame.
Recurse(e, obj) ==
  [e EXCEPT !.stack[1].todo = <<obj>> \o @, !.step = "elided"]

\* The SharedFunctionInfo serialized with the instrumented bytecode left active.
SerializeSharedFunctionInfoObject_KeepsDebugBytecode(e, obj) ==
  LET HasDebugInfo == e.kind[e.fields[obj][kScriptOrDebugInfoField]] = "DebugInfo"
      debug_info == IF HasDebugInfo THEN e.fields[obj][kScriptOrDebugInfoField] ELSE kNull
      cleared == IF HasDebugInfo
                 THEN [e EXCEPT !.fields[obj][kScriptOrDebugInfoField] =
                                  e.fields[debug_info][kDebugInfoScriptField]]
                 ELSE e
  IN SerializeGeneric(cleared, obj, <<debug_info, kNull>>)

\* Lines 170-192: a SharedFunctionInfo is serialized without its DebugInfo
\* (script_or_debug_info holds the script) and, when the DebugInfo has an
\* instrumented bytecode array, with the original bytecode as the active one.
SerializeSharedFunctionInfoObject(e, obj) ==
  LET HasDebugInfo == e.kind[e.fields[obj][kScriptOrDebugInfoField]] = "DebugInfo"
      debug_info == IF HasDebugInfo THEN e.fields[obj][kScriptOrDebugInfoField] ELSE kNull
      HasInstrumentedBytecodeArray ==
        HasDebugInfo /\ e.kind[e.fields[debug_info][kOriginalBytecodeField]] = "BytecodeArray"
      debug_bytecode_array ==
        IF HasInstrumentedBytecodeArray THEN e.fields[debug_info][kDebugBytecodeField]
        ELSE kNull
      activated == IF HasInstrumentedBytecodeArray
                   THEN [e EXCEPT !.fields[obj][kFunctionDataField] =
                                    e.fields[debug_info][kOriginalBytecodeField]]
                   ELSE e
      cleared == IF HasDebugInfo
                 THEN [activated EXCEPT !.fields[obj][kScriptOrDebugInfoField] =
                                          e.fields[debug_info][kDebugInfoScriptField]]
                 ELSE activated
  IN SerializeGeneric(cleared, obj, <<debug_info, debug_bytecode_array>>)

\* A Script serialized with its host-defined options left in place.
SerializeFull_KeepsHostOptions(e, obj) ==
  IF e.kind[obj] = "Code" THEN Fatal(e, "CHECK(!obj->IsCode())")
  ELSE IF obj \in e.elide THEN Recurse(e, "undefined")
  ELSE IF e.kind[obj] = "Script"
  THEN SerializeGeneric([e EXCEPT !.fields[obj][kContextDataField] = "undefined"], obj,
                        <<e.fields[obj][kContextDataField],
                          e.fields[obj][kHostDefinedOptionsField]>>)
  ELSE IF e.kind[obj] = "SharedFunctionInfo" THEN SerializeSharedFunctionInfoObject(e, obj)
  ELSE IF e.kind[obj] \in IllegalKinds THEN Fatal(e, "CHECK")
  ELSE SerializeGeneric(e, obj, <<>>)

\* SerializeFull that never asks ElideObject.
SerializeFull_NoElision(e, obj) ==
  IF e.kind[obj] = "Code" THEN Fatal(e, "CHECK(!obj->IsCode())")
  ELSE IF e.kind[obj] = "Script"
  THEN SerializeGeneric([e EXCEPT !.fields[obj][kContextDataField] = "undefined",
                                  !.fields[obj][kHostDefinedOptionsField] =
                                    "empty_fixed_array"], obj,
                        <<e.fields[obj][kContextDataField],
                          e.fields[obj][kHostDefinedOptionsField]>>)
  ELSE IF e.kind[obj] = "SharedFunctionInfo" THEN SerializeSharedFunctionInfoObject(e, obj)
  ELSE IF e.kind[obj] \in IllegalKinds THEN Fatal(e, "CHECK")
  ELSE SerializeGeneric(e, obj, <<>>)

\* A Script serialized with its context data left in place.
SerializeFull_KeepsContextData(e, obj) ==
  IF e.kind[obj] = "Code" THEN Fatal(e, "CHECK(!obj->IsCode())")
  ELSE IF obj \in e.elide THEN Recurse(e, "undefined")
  ELSE IF e.kind[obj] = "Script"
  THEN SerializeGeneric([e EXCEPT !.fields[obj][kHostDefinedOptionsField] =
                                    "empty_fixed_array"], obj,
                        <<e.fields[obj][kContextDataField],
                          e.fields[obj][kHostDefinedOptionsField]>>)
  ELSE IF e.kind[obj] = "SharedFunctionInfo" THEN SerializeSharedFunctionInfoObject(e, obj)
  ELSE IF e.kind[obj] \in IllegalKinds THEN Fatal(e, "CHECK")
  ELSE SerializeGeneric(e, obj, <<>>)

\* Lines 142-225: what SerializeObjectImpl does with a record none of the first
\* four steps has matched.
SerializeChecked(e, obj) ==
  IF e.kind[obj] = "Map" THEN Fatal(e, "CHECK(!obj->IsMap())")
  ELSE IF e.kind[obj] \in {"JSGlobalProxy", "JSGlobalObject"}
  THEN Fatal(e, "CHECK(!obj->IsJSGlobalProxy() && !obj->IsJSGlobalObject())")
  ELSE IF e.kind[obj] \in {"JSFunction", "Context"}
  THEN Fatal(e, "CHECK(!obj->IsJSFunction() && !obj->IsContext())")
  ELSE SerializeGeneric(e, obj, <<>>)

\* SerializeObjectImpl from line 142 on, for a record that none of the four
\* reference steps has matched.  Outside ARM builds an InterpreterData is
\* replaced by its bytecode array when FLAG_interpreted_frames_native_stack
\* is set (210-214); the CHECKs and SerializeGeneric then see the bytecode array.
SerializeFull(e, obj) ==
  IF e.kind[obj] = "Code" THEN Fatal(e, "CHECK(!obj->IsCode())")
  ELSE IF obj \in e.elide THEN Recurse(e, "undefined")
  ELSE IF e.kind[obj] = "Script"
  THEN LET context_data == e.fields[obj][kContextDataField]
           host_options == e.fields[obj][kHostDefinedOptionsField]
           cleared == IF context_data # "undefined" /\ context_data # "uninitialized_symbol"
                      THEN [e EXCEPT !.fields[obj][kContextDataField] = "undefined"]
                      ELSE e
           emptied == [cleared EXCEPT !.fields[obj][kHostDefinedOptionsField] =
                                        "empty_fixed_array"]
       IN SerializeGeneric(emptied, obj, <<context_data, host_options>>)
  ELSE IF e.kind[obj] = "SharedFunctionInfo" THEN SerializeSharedFunctionInfoObject(e, obj)
  ELSE IF e.interpreted_frames_native_stack /\ e.kind[obj] = "InterpreterData"
  THEN SerializeChecked(e, e.fields[obj][kBytecodeArrayField])
  ELSE SerializeChecked(e, obj)

\* The read-only space consulted before the root table.
SerializeObjectImpl_ReadOnlyFirst(e, obj) ==
  IF SerializeHotObject(e, obj).hit THEN SerializeHotObject(e, obj).e
  ELSE IF SerializeReadOnlyObject(e, obj).hit THEN SerializeReadOnlyObject(e, obj).e
  ELSE IF SerializeRoot(e, obj).hit THEN SerializeRoot(e, obj).e
  ELSE IF SerializeBackReference(e, obj).hit THEN SerializeBackReference(e, obj).e
  ELSE SerializeFull(e, obj)

\* The kind checks of lines 217-223 left out.
SerializeObjectImpl_NoKindChecks(e, obj) ==
  IF SerializeHotObject(e, obj).hit THEN SerializeHotObject(e, obj).e
  ELSE IF SerializeRoot(e, obj).hit THEN SerializeRoot(e, obj).e
  ELSE IF SerializeBackReference(e, obj).hit THEN SerializeBackReference(e, obj).e
  ELSE IF SerializeReadOnlyObject(e, obj).hit THEN SerializeReadOnlyObject(e, obj).e
  ELSE IF e.kind[obj] \in IllegalKinds \ {"Code"} /\ obj \notin e.elide
  THEN SerializeGeneric(e, obj, <<>>)
  ELSE SerializeFull(e, obj)

SerializeObjectImpl(e, obj) ==
  IF SerializeHotObject(e, obj).hit THEN SerializeHotObject(e, obj).e
  ELSE IF SerializeRoot(e, obj).hit THEN SerializeRoot(e, obj).e
  ELSE IF SerializeBackReference(e, obj).hit THEN SerializeBackReference(e, obj).e
  ELSE IF SerializeReadOnlyObject(e, obj).hit THEN SerializeReadOnlyObject(e, obj).e
  ELSE SerializeFull(e, obj)

\* Serializer::Pad: kNop up to pointer alignment.
RECURSIVE Pad(_)
Pad(sink) ==
  IF Len(sink) % kPointerAlignment = 0 THEN sink ELSE Pad(Append(sink, kNop))

\* No entry: the buffer before Serialize has produced one.
NoCachedData ==
  [size |-> 0, magic |-> 0, version_hash |-> 0, source_hash |-> <<0, 0>>,
   flags_hash |-> 0, payload_length |-> 0, checksum |-> 0, payload |-> <<>>]

InitEncode ==
  /\ flag_verify \in BOOLEAN
  /\ flag_stress = FALSE
  /\ origin_options = FALSE
  /\ buffer = NoCachedData
  /\ rejected = [w \in Wrappers |-> FALSE]
  /\ main = MainIdle
  /\ worker = WorkerNone
  /\ data = DataNone
  /\ heap = <<>>
  /\ script_list = <<>>
  /\ samples = <<>>
  /\ finalized = <<>>
  /\ dchecks = {}
  /\ ret = NoOutcome
  /\ ncalls = 0
  /\ chk = <<>>
  /\ acd = NoAligned
  /\ sign = NoSign
  /\ \E extra_kind \in {"FixedArray"} \cup IllegalKinds,
        extra_root \in BOOLEAN, extra_read_only \in BOOLEAN, extra_elide \in BOOLEAN,
        name \in {"undefined", "extra"},
        context_data \in {"undefined", "uninitialized_symbol", "native_context"},
        host_defined_options \in {"empty_fixed_array", "host_options"},
        pool \in SeqsUpTo({"extra", "info"}, MaxEdges), debug \in DebugStates,
        asm \in BOOLEAN :
       /\ debug # "none" =>
            name = "undefined" /\ host_defined_options = "empty_fixed_array" /\ ~asm
       /\ enc = NewSerializer(extra_kind, extra_root, extra_read_only, extra_elide, name,
                              context_data, host_defined_options, pool, debug, asm)

\* CodeSerializer::Serialize (51-80) up to the visit of the root, without the
\* return for a script with an asm module.
SerializeStart_IgnoresAsmModule(e, is_module) ==
  [e EXCEPT !.pc = "running",
            !.source_hash = SourceHash(ScriptSource, is_module),
            !.attached = <<"source">>,
            !.stack = <<[obj |-> "handle_scope", todo |-> <<"info">>, saved |-> <<>>]>>]

\* CodeSerializer::Serialize (51-80) up to the visit of the root: nullptr for a
\* script with an asm module, else the source hash, the attached source string
\* and the root slot that holds info.
SerializeStart(e, is_module) ==
  IF e.asm THEN [e EXCEPT !.pc = "nullptr"]
  ELSE [e EXCEPT !.pc = "running",
                 !.source_hash = SourceHash(ScriptSource, is_module),
                 !.attached = <<"source">>,
                 !.stack = <<[obj |-> "handle_scope", todo |-> <<"info">>, saved |-> <<>>]>>]

Serialize ==
  /\ enc.pc = "idle"
  /\ enc' = SerializeStart(enc, origin_options)
  /\ UNCHANGED <<config, rejected, main, worker, data, heap, script_list, samples,
                 finalized, dchecks, ret, ncalls, chk, acd, sign>>

\* What held of a record when SerializeObjectImpl was called for it.
Visit(e, obj) ==
  [obj |-> obj,
   hot |-> PositionIn(e.hot, obj) # 0,
   root |-> PositionIn(e.root_table, obj) # 0,
   back_reference |-> PositionIn(e.attached, obj) # 0 \/ PositionIn(e.reference_map, obj) # 0,
   read_only |-> ReadOnlyPageOf(e.pages, obj) # 0,
   elide |-> obj \in e.elide,
   kind |-> e.kind[obj],
   sink |-> e.sink, reference_map |-> e.reference_map, fields |-> e.fields]

\* One SerializeObject call: the next pointer field of the record being
\* serialized (or the root slot) goes through SerializeObjectImpl.
SerializeObject ==
  /\ enc.pc = "running" /\ enc.stack[1].todo # <<>>
  /\ LET obj == Head(enc.stack[1].todo)
         called == [enc EXCEPT !.stack[1].todo = Tail(@)]
         returned == SerializeObjectImpl(called, obj)
     IN enc' = [returned EXCEPT
                  !.last = <<Visit(enc, obj)>>,
                  !.visits = Append(@, [obj |-> obj, hot |-> PositionIn(enc.hot, obj) # 0,
                                        tokens |-> SubSeq(returned.sink, Len(enc.sink) + 1,
                                                          Len(returned.sink))])]
  /\ UNCHANGED <<config, rejected, main, worker, data, heap, script_list, samples,
                 finalized, dchecks, ret, ncalls, chk, acd, sign>>

\* The restore of lines 165-166 and 195-200 left out.
SerializeGenericReturn_NoRestore ==
  /\ enc.pc = "running" /\ Len(enc.stack) > 1 /\ enc.stack[1].todo = <<>>
  /\ enc' = [enc EXCEPT !.stack = Tail(@), !.step = "return"]
  /\ UNCHANGED <<config, rejected, main, worker, data, heap, script_list, samples,
                 finalized, dchecks, ret, ncalls, chk, acd, sign>>

\* SerializeGeneric returns to SerializeObjectImpl, which restores what it
\* replaced in a Script (165-166) or in a SharedFunctionInfo (195-200) and returns.
SerializeGenericReturned(e) ==
  LET frame == e.stack[1]
      popped == [e EXCEPT !.stack = Tail(@), !.step = "return"]
  IN IF e.kind[frame.obj] = "Script"
     THEN [popped EXCEPT !.fields[frame.obj][kHostDefinedOptionsField] = frame.saved[2],
                         !.fields[frame.obj][kContextDataField] = frame.saved[1]]
     ELSE IF e.kind[frame.obj] = "SharedFunctionInfo" /\ frame.saved[1] # kNull
     THEN LET linked == [popped EXCEPT !.fields[frame.obj][kScriptOrDebugInfoField] =
                                         frame.saved[1]]
          IN IF frame.saved[2] # kNull
             THEN [linked EXCEPT !.fields[frame.obj][kFunctionDataField] = frame.saved[2]]
             ELSE linked
     ELSE popped

SerializeGenericReturn ==
  /\ enc.pc = "running" /\ Len(enc.stack) > 1 /\ enc.stack[1].todo = <<>>
  /\ enc' = SerializeGenericReturned(enc)
  /\ UNCHANGED <<config, rejected, main, worker, data, heap, script_list, samples,
                 finalized, dchecks, ret, ncalls, chk, acd, sign>>

\* SerializeSharedFunctionInfo after the visit (104-109) and the rest of
\* Serialize (88-95): the padded sink becomes the payload of a new entry.
SerializeFinish ==
  /\ enc.pc = "running" /\ Len(enc.stack) = 1 /\ enc.stack[1].todo = <<>>
  /\ LET payload == Pad(enc.sink)
         cached_data == WriteSerializedCodeData(payload, enc.source_hash, flag_verify)
     IN /\ enc' = [enc EXCEPT !.pc = "done", !.stack = <<>>, !.step = "return",
                              !.cached_data = <<cached_data>>]
        /\ buffer' = cached_data
        /\ dchecks' = dchecks \cup
                        (IF cached_data.size % kPointerAlignment = 0 THEN {}
                         ELSE {"SerializedCodeData:DCHECK(IsAligned)"})
  /\ UNCHANGED <<flag_verify, flag_stress, origin_options, rejected, main, worker, data,
                 heap, script_list, samples, finalized, ret, ncalls, chk, acd, sign>>

\* The caller decodes the entry it got, once, with the source it was made from.
NextEncode ==
  \/ Serialize
  \/ SerializeObject
  \/ SerializeGenericReturn
  \/ SerializeFinish
  \/ enc.pc = "done" /\ ncalls = 0 /\ Deserialize(WrapperOrder[1], ScriptSource, origin_options)
  \/ DeserializeCheck
  \/ \E alloc_ok \in BOOLEAN : DeserializeObjects(alloc_ok)
  \/ DeserializeFinalize

SpecEncode == InitEncode /\ [][NextEncode]_vars

\* The whole walk of SerializeSharedFunctionInfo (102-105) as one function of the
\* serializer and its heap: the steps above, until the sink is complete or a
\* CHECK fails.
RECURSIVE SerializeAll(_)
SerializeAll(e) ==
  IF e.pc # "running" THEN e
  ELSE IF e.stack[1].todo # <<>>
  THEN SerializeAll(SerializeObjectImpl([e EXCEPT !.stack[1].todo = Tail(@)],
                                        Head(e.stack[1].todo)))
  ELSE IF Len(e.stack) > 1 THEN SerializeAll(SerializeGenericReturned(e))
  ELSE [e EXCEPT !.pc = "done", !.stack = <<>>, !.sink = Pad(@)]

\* The serializer of e as it was before Serialize, on the heap of e with other
\* context data and host-defined options in its Script.
WithScriptFields(e, context_data, host_defined_options) ==
  LET fields == [e.fields0 EXCEPT !["script"][kContextDataField] = context_data,
                                  !["script"][kHostDefinedOptionsField] = host_defined_options]
  IN [e EXCEPT !.pc = "idle", !.fields = fields, !.fields0 = fields,
               !.source_hash = <<0, 0>>, !.sink = <<>>, !.reference_map = <<>>,
               !.attached = <<>>, !.hot = <<>>, !.stack = <<>>, !.step = "none",
               !.fatal = "", !.last = <<>>, !.visits = <<>>, !.cached_data = <<>>]

(***************************************************************************)
(* AlignedCachedData on its own: the memory is a map from the address of a *)
(* block to its bytes; a wrapper is constructed over a buffer of a caller, *)
(* at any address, or by GetScriptData over the entry a SerializedCodeData *)
(* has written.                                                            *)
(***************************************************************************)
MaxLength == 2

\* Addresses a buffer handed to the constructor may have, and addresses the
\* allocator may return.
BufferAddresses == kPointerAlignment..(2 * kPointerAlignment)
ArrayAddresses == {3 * kPointerAlignment, 4 * kPointerAlignment}

IsAligned(value, alignment) == value % alignment = 0

\* CopyBytes(copy, data, length): the bytes the copy holds.
CopyBytes(bytes, length) == SubSeq(bytes, 1, length)

\* A constructor that keeps the pointer it is given, aligned or not.
AlignedCachedData_KeepsUnaligned(memory, address, length, copy) ==
  [object |-> [owns_data_ |-> FALSE, rejected_ |-> FALSE, data_ |-> address,
               length_ |-> length],
   memory |-> memory, dchecks |-> {}]

\* AlignedCachedData::AlignedCachedData(data, length), data being address; copy is the address
\* NewArray<byte>(length) returns if it is called.
AlignedCachedData(memory, address, length, copy) ==
  IF ~IsAligned(address, kPointerAlignment)
  THEN [object |-> [owns_data_ |-> TRUE, rejected_ |-> FALSE, data_ |-> copy,
                    length_ |-> length],
        memory |-> memory @@ (copy :> CopyBytes(memory[address], length)),
        dchecks |-> IF IsAligned(copy, kPointerAlignment) THEN {}
                    ELSE {"AlignedCachedData:DCHECK(IsAligned)"}]
  ELSE [object |-> [owns_data_ |-> FALSE, rejected_ |-> FALSE, data_ |-> address,
                    length_ |-> length],
        memory |-> memory, dchecks |-> {}]

\* A buffer of a caller at any address, or the entry a SerializedCodeData has
\* allocated and written (AllocateData gives an aligned block).
InitAligned ==
  /\ flag_verify = FALSE
  /\ flag_stress = FALSE
  /\ origin_options = FALSE
  /\ buffer = NoCachedData
  /\ rejected = [w \in Wrappers |-> FALSE]
  /\ main = MainIdle
  /\ worker = WorkerNone
  /\ data = DataNone
  /\ heap = <<>>
  /\ script_list = <<>>
  /\ samples = <<>>
  /\ finalized = <<>>
  /\ dchecks = {}
  /\ ret = NoOutcome
  /\ ncalls = 0
  /\ chk = <<>>
  /\ enc = NoSerializer
  /\ \E address \in BufferAddresses, bytes \in SeqsUpTo({0, 1}, MaxLength),
        owner \in {"caller", "SerializedCodeData"} :
       /\ owner = "SerializedCodeData" => IsAligned(address, kPointerAlignment)
       /\ acd = [pc |-> "idle", owner |-> owner, buffer |-> address, bytes |-> bytes,
                 memory |-> (address :> bytes),
                 given |-> [data |-> 0, length |-> 0],
                 object |-> [owns_data_ |-> FALSE, rejected_ |-> FALSE, data_ |-> 0,
                             length_ |-> 0]]
  /\ sign = NoSign

\* A caller wraps its buffer, or the first length bytes of it.
Construct(length, copy) ==
  /\ acd.pc = "idle" /\ acd.owner = "caller"
  /\ length <= Len(acd.memory[acd.buffer])
  /\ LET made == AlignedCachedData(acd.memory, acd.buffer, length, copy)
     IN /\ acd' = [acd EXCEPT !.pc = "constructed", !.memory = made.memory,
                              !.object = made.object,
                              !.given = [data |-> acd.buffer, length |-> length]]
        /\ dchecks' = dchecks \cup made.dchecks
  /\ UNCHANGED <<config, rejected, main, worker, data, heap, script_list, samples,
                 finalized, ret, ncalls, chk, enc, sign>>

\* cached_data->Reject() of one of the From*CachedData functions.
RejectCachedData ==
  /\ acd.pc \in {"constructed", "rejected"}
  /\ acd' = [acd EXCEPT !.pc = "rejected",
                        !.object.rejected_ = Reject(acd.object.rejected_)]
  /\ UNCHANGED <<config, rejected, main, worker, data, heap, script_list, samples,
                 finalized, dchecks, ret, ncalls, chk, enc, sign>>

\* SerializedCodeData::GetScriptData(): a wrapper over data_ and size_, made the
\* owner of the block in place of the SerializedCodeData.
GetScriptData(copy) ==
  /\ acd.pc = "idle" /\ acd.owner = "SerializedCodeData"
  /\ LET size == Len(acd.memory[acd.buffer])
         made == AlignedCachedData(acd.memory, acd.buffer, size, copy)
     IN /\ acd' = [acd EXCEPT !.pc = "script_data", !.owner = "AlignedCachedData",
                              !.memory = made.memory,
                              !.object = [made.object EXCEPT !.owns_data_ = TRUE],
                              !.given = [data |-> acd.buffer, length |-> size]]
        /\ dchecks' = dchecks \cup made.dchecks
  /\ UNCHANGED <<config, rejected, main, worker, data, heap, script_list, samples,
                 finalized, ret, ncalls, chk, enc, sign>>

\* The end of Serialize: the CachedData it returns takes the block as owner, the
\* wrapper releases it and is deleted.
SerializeReturn ==
  /\ acd.pc = "script_data"
  /\ acd' = [acd EXCEPT !.pc = "deleted", !.owner = "CachedData",
                        !.object.owns_data_ = FALSE]
  /\ UNCHANGED <<config, rejected, main, worker, data, heap, script_list, samples,
                 finalized, dchecks, ret, ncalls, chk, enc, sign>>

NextAligned ==
  \/ \E length \in 0..MaxLength, copy \in ArrayAddresses : Construct(length, copy)
  \/ RejectCachedData
  \/ \E copy \in ArrayAddresses : GetScriptData(copy)
  \/ SerializeReturn

SpecAligned == InitAligned /\ [][NextAligned]_vars

(***************************************************************************)
(* SerializeReadOnlyObject on its own, for any layout of the read-only     *)
(* space: up to MaxPages pages, each with some of the records, no record   *)
(* on two pages.                                                           *)
(***************************************************************************)
MaxPages == 3

ReadOnlyCandidates == {"undefined", "extra", "bytecode"}

\* The records on the pages, one entry per place.
PageEntries(pages) ==
  UNION {{<<p, i>> : i \in 1..Len(pages[p])} : p \in 1..Len(pages)}

ReadOnlyLayouts ==
  {pages \in SeqsUpTo(SeqsUpTo(ReadOnlyCandidates, 2), MaxPages) :
     \A a, b \in PageEntries(pages) : pages[a[1]][a[2]] = pages[b[1]][b[2]] => a = b}

InitReadOnly ==
  /\ flag_verify = FALSE
  /\ flag_stress = FALSE
  /\ origin_options = FALSE
  /\ buffer = NoCachedData
  /\ rejected = [w \in Wrappers |-> FALSE]
  /\ main = MainIdle
  /\ worker = WorkerNone
  /\ data = DataNone
  /\ heap = <<>>
  /\ script_list = <<>>
  /\ samples = <<>>
  /\ finalized = <<>>
  /\ dchecks = {}
  /\ ret = NoOutcome
  /\ ncalls = 0
  /\ chk = <<>>
  /\ acd = NoAligned
  /\ sign = NoSign
  /\ \E pages \in ReadOnlyLayouts :
       enc = [NewSerializer("FixedArray", FALSE, FALSE, FALSE, "undefined", "undefined",
                            "empty_fixed_array", <<>>, "none", FALSE)
                EXCEPT !.pages = pages]

\* One call of SerializeReadOnlyObject, with its result.
ApplyReadOnly(obj) ==
  /\ chk = <<>>
  /\ chk' = <<[obj |-> obj, returned |-> SerializeReadOnlyObject(enc, obj)]>>
  /\ UNCHANGED <<config, rejected, main, worker, data, heap, script_list, samples,
                 finalized, dchecks, ret, ncalls, enc, acd, sign>>

NextReadOnly == \E obj \in DOMAIN enc.kind : ApplyReadOnly(obj)

SpecReadOnly == InitReadOnly /\ [][NextReadOnly]_vars

(***************************************************************************)
(* crypto_sig.cc: a Sign or Verify object.  mdctx_ is the empty sequence   *)
(* when null and holds one digest context otherwise.  The results of the   *)
(* OpenSSL calls are inputs of the operations.                             *)
(***************************************************************************)
MaxOps == 4

kSignOk == "kSignOk"
kSignUnknownDigest == "kSignUnknownDigest"
kSignInit == "kSignInit"
kSignNotInitialised == "kSignNotInitialised"
kSignUpdate == "kSignUpdate"
kSignPrivateKey == "kSignPrivateKey"
kSignPublicKey == "kSignPublicKey"
kCheckNull == "CHECK_NULL(mdctx_)"

Digests == {"SHA1", "SHA256"}
SignTypes == {"dss1", "DSS1", "SHA1", "SHA256", "nosuch"}

EVP_get_digestbyname(name) == IF name \in Digests THEN name ELSE kNull

\* SignBase::Init that leaves the context in place when EVP_DigestInit_ex fails.
SignBase_Init_KeepsContext(mdctx_, sign_type, new_ok, init_ok) ==
  LET type == IF sign_type = "dss1" \/ sign_type = "DSS1" THEN "SHA1" ELSE sign_type
      md == EVP_get_digestbyname(type)
  IN IF mdctx_ # <<>> THEN [mdctx_ |-> mdctx_, result |-> kCheckNull, detail |-> sign_type]
     ELSE IF md = kNull
     THEN [mdctx_ |-> mdctx_, result |-> kSignUnknownDigest, detail |-> sign_type]
     ELSE IF ~new_ok
     THEN [mdctx_ |-> <<>>, result |-> kSignInit, detail |-> "EVP_MD_CTX_new"]
     ELSE IF ~init_ok
     THEN [mdctx_ |-> <<[md |-> md, updates |-> 0]>>, result |-> kSignInit,
           detail |-> "EVP_DigestInit_ex"]
     ELSE [mdctx_ |-> <<[md |-> md, updates |-> 0]>>, result |-> kSignOk,
           detail |-> sign_type]

\* SignBase::Init (283-302).
SignBase_Init(mdctx_, sign_type, new_ok, init_ok) ==
  LET type == IF sign_type = "dss1" \/ sign_type = "DSS1" THEN "SHA1" ELSE sign_type
      md == EVP_get_digestbyname(type)
  IN IF mdctx_ # <<>> THEN [mdctx_ |-> mdctx_, result |-> kCheckNull, detail |-> sign_type]
     ELSE IF md = kNull
     THEN [mdctx_ |-> mdctx_, result |-> kSignUnknownDigest, detail |-> sign_type]
     ELSE IF ~new_ok
     THEN [mdctx_ |-> <<>>, result |-> kSignInit, detail |-> "EVP_MD_CTX_new"]
     ELSE IF ~init_ok
     THEN [mdctx_ |-> <<>>, result |-> kSignInit, detail |-> "EVP_DigestInit_ex"]
     ELSE [mdctx_ |-> <<[md |-> md, updates |-> 0]>>, result |-> kSignOk,
           detail |-> sign_type]

\* SignBase::Update (304-310).
SignBase_Update(mdctx_, update_ok) ==
  IF mdctx_ = <<>> THEN [mdctx_ |-> mdctx_, result |-> kSignNotInitialised, detail |-> ""]
  ELSE IF ~update_ok
  THEN [mdctx_ |-> mdctx_, result |-> kSignUpdate, detail |-> "EVP_DigestUpdate"]
  ELSE [mdctx_ |-> <<[mdctx_[1] EXCEPT !.updates = @ + 1]>>, result |-> kSignOk,
        detail |-> ""]

\* Sign::SignFinal that validates the key before it takes the context.
Sign_SignFinal_ValidatesFirst(mdctx_, validate_ok, final_ok, sign_ok) ==
  IF mdctx_ = <<>> THEN [mdctx_ |-> mdctx_, result |-> kSignNotInitialised, detail |-> ""]
  ELSE IF ~validate_ok
  THEN [mdctx_ |-> mdctx_, result |-> kSignPrivateKey, detail |-> "ValidateDSAParameters"]
  ELSE IF ~final_ok
  THEN [mdctx_ |-> <<>>, result |-> kSignPrivateKey, detail |-> "EVP_DigestFinal_ex"]
  ELSE IF ~sign_ok
  THEN [mdctx_ |-> <<>>, result |-> kSignPrivateKey, detail |-> "EVP_PKEY_sign"]
  ELSE [mdctx_ |-> <<>>, result |-> kSignOk, detail |-> mdctx_[1].md]

\* Sign::SignFinal (381-402), with Node_SignFinal (72-102): the context is
\* moved out of mdctx_ before the key is validated.  The conversion to P1363
\* changes the signature bytes only.
Sign_SignFinal(mdctx_, validate_ok, final_ok, sign_ok) ==
  IF mdctx_ = <<>> THEN [mdctx_ |-> mdctx_, result |-> kSignNotInitialised, detail |-> ""]
  ELSE IF ~validate_ok
  THEN [mdctx_ |-> <<>>, result |-> kSignPrivateKey, detail |-> "ValidateDSAParameters"]
  ELSE IF ~final_ok
  THEN [mdctx_ |-> <<>>, result |-> kSignPrivateKey, detail |-> "EVP_DigestFinal_ex"]
  ELSE IF ~sign_ok
  THEN [mdctx_ |-> <<>>, result |-> kSignPrivateKey, detail |-> "EVP_PKEY_sign"]
  ELSE [mdctx_ |-> <<>>, result |-> kSignOk, detail |-> mdctx_[1].md]

\* Verify::VerifyFinal (496-524): kSignOk also when the signature does not
\* verify; *verify_result tells.
Verify_VerifyFinal(mdctx_, final_ok, verify_result) ==
  IF mdctx_ = <<>> THEN [mdctx_ |-> mdctx_, result |-> kSignNotInitialised, detail |-> ""]
  ELSE IF ~final_ok
  THEN [mdctx_ |-> <<>>, result |-> kSignPublicKey, detail |-> "EVP_DigestFinal_ex"]
  ELSE [mdctx_ |-> <<>>, result |-> kSignOk,
        detail |-> IF verify_result THEN "verified" ELSE "not verified"]

\* The object after a call: its mdctx_, and the call added to the calls made.
\* initialised (ghost) tells whether an Init has returned kSignOk since the
\* construction and since the last SignFinal or VerifyFinal call.
Called(op, r) ==
  [sign EXCEPT !.mdctx_ = r.mdctx_,
               !.pc = IF r.result = kCheckNull THEN "aborted" ELSE @,
               !.initialised = IF op = "Init" THEN (@ \/ r.result = kSignOk)
                               ELSE IF op = "Update" THEN @ ELSE FALSE,
               !.calls = Append(@, [op |-> op, result |-> r.result, detail |-> r.detail,
                                    initialised |-> sign.initialised,
                                    before |-> sign.mdctx_, after |-> r.mdctx_])]

InitSign ==
  /\ flag_verify = FALSE
  /\ flag_stress = FALSE
  /\ origin_options = FALSE
  /\ buffer = NoCachedData
  /\ rejected = [w \in Wrappers |-> FALSE]
  /\ main = MainIdle
  /\ worker = WorkerNone
  /\ data = DataNone
  /\ heap = <<>>
  /\ script_list = <<>>
  /\ samples = <<>>
  /\ finalized = <<>>
  /\ dchecks = {}
  /\ ret = NoOutcome
  /\ ncalls = 0
  /\ chk = <<>>
  /\ enc = NoSerializer
  /\ acd = NoAligned
  /\ \E kind \in {"Sign", "Verify"} :
       sign = [pc |-> "constructed", kind |-> kind, mdctx_ |-> <<>>,
               initialised |-> FALSE, calls |-> <<>>]

\* Sign::SignInit (361-368) and Verify::VerifyInit (475-482).
SignInit(sign_type, new_ok, init_ok) ==
  /\ sign.pc = "constructed" /\ Len(sign.calls) < MaxOps
  /\ sign' = Called("Init", SignBase_Init(sign.mdctx_, sign_type, new_ok, init_ok))
  /\ UNCHANGED <<config, rejected, main, worker, data, heap, script_list, samples,
                 finalized, dchecks, ret, ncalls, chk, enc, acd>>

\* Sign::SignUpdate (370-379) and Verify::VerifyUpdate (484-494).
SignUpdate(update_ok) ==
  /\ sign.pc = "constructed" /\ Len(sign.calls) < MaxOps
  /\ sign' = Called("Update", SignBase_Update(sign.mdctx_, update_ok))
  /\ UNCHANGED <<config, rejected, main, worker, data, heap, script_list, samples,
                 finalized, dchecks, ret, ncalls, chk, enc, acd>>

SignFinal(validate_ok, final_ok, sign_ok) ==
  /\ sign.pc = "constructed" /\ sign.kind = "Sign" /\ Len(sign.calls) < MaxOps
  /\ sign' = Called("SignFinal",
                    Sign_SignFinal(sign.mdctx_, validate_ok, final_ok, sign_ok))
  /\ UNCHANGED <<config, rejected, main, worker, data, heap, script_list, samples,
                 finalized, dchecks, ret, ncalls, chk, enc, acd>>

VerifyFinal(final_ok, verify_result) ==
  /\ sign.pc = "constructed" /\ sign.kind = "Verify" /\ Len(sign.calls) < MaxOps
  /\ sign' = Called("VerifyFinal",
                    Verify_VerifyFinal(sign.mdctx_, final_ok, verify_result))
  /\ UNCHANGED <<config, rejected, main, worker, data, heap, script_list, samples,
                 finalized, dchecks, ret, ncalls, chk, enc, acd>>

NextSign ==
  \/ \E sign_type \in SignTypes, new_ok \in BOOLEAN, init_ok \in BOOLEAN :
       SignInit(sign_type, new_ok, init_ok)
  \/ \E update_ok \in BOOLEAN : SignUpdate(update_ok)
  \/ \E validate_ok \in BOOLEAN, final_ok \in BOOLEAN, sign_ok \in BOOLEAN :
       SignFinal(validate_ok, final_ok, sign_ok)
  \/ \E final_ok \in BOOLEAN, verify_result \in BOOLEAN :
       VerifyFinal(final_ok, verify_result)

SpecSign == InitSign /\ [][NextSign]_vars

(***************************************************************************)
(* The same serializer on a heap with an InterpreterData: the extra record *)
(* holds the function's bytecode array and the interpreter trampoline, a   *)
(* Code object.  The function's data is the InterpreterData or the         *)
(* bytecode array itself; the script's name is a second pointer to one of  *)
(* the two, or undefined.                                                  *)
(***************************************************************************)
InitInterpreterData ==
  /\ flag_verify = FALSE
  /\ flag_stress = FALSE
  /\ origin_options = FALSE
  /\ buffer = NoCachedData
  /\ rejected = [w \in Wrappers |-> FALSE]
  /\ main = MainIdle
  /\ worker = WorkerNone
  /\ data = DataNone
  /\ heap = <<>>
  /\ script_list = <<>>
  /\ samples = <<>>
  /\ finalized = <<>>
  /\ dchecks = {}
  /\ ret = NoOutcome
  /\ ncalls = 0
  /\ chk = <<>>
  /\ acd = NoAligned
  /\ sign = NoSign
  /\ \E name \in {"undefined", "extra", "bytecode"}, function_data \in {"extra", "bytecode"},
        pool \in SeqsUpTo({"info", "script"}, MaxEdges), native_stack \in BOOLEAN :
       LET e == NewSerializer("InterpreterData", FALSE, FALSE, FALSE, name, "undefined",
                              "empty_fixed_array", pool, "none", FALSE)
           fields == [trampoline |-> <<>>] @@
                     [e.fields EXCEPT !["extra"] = <<"bytecode", "trampoline">>,
                                      !["info"][kFunctionDataField] = function_data]
       IN enc = [e EXCEPT !.kind = [trampoline |-> "Code"] @@ @,
                          !.fields = fields, !.fields0 = fields,
                          !.interpreted_frames_native_stack = native_stack]

SpecInterpreterData == InitInterpreterData /\ [][NextEncode]_vars

(***************************************************************************)
(* The same serializer with an elision predicate that holds of any of the  *)
(* extra record, the bytecode array (through whose constant pool the extra *)
(* record is reached) and the script.                                      *)
(***************************************************************************)
InitElide ==
  /\ flag_verify = FALSE
  /\ flag_stress = FALSE
  /\ origin_options = FALSE
  /\ buffer = NoCachedData
  /\ rejected = [w \in Wrappers |-> FALSE]
  /\ main = MainIdle
  /\ worker = WorkerNone
  /\ data = DataNone
  /\ heap = <<>>
  /\ script_list = <<>>
  /\ samples = <<>>
  /\ finalized = <<>>
  /\ dchecks = {}
  /\ ret = NoOutcome
  /\ ncalls = 0
  /\ chk = <<>>
  /\ acd = NoAligned
  /\ sign = NoSign
  /\ \E extra_kind \in {"FixedArray", "Code", "Map"}, name \in {"undefined", "extra"},
        pool \in SeqsUpTo({"extra", "info"}, MaxEdges),
        elide \in SUBSET {"extra", "bytecode", "script"} :
       enc = [NewSerializer(extra_kind, FALSE, FALSE, FALSE, name, "undefined",
                            "empty_fixed_array", pool, "none", FALSE)
                EXCEPT !.elide = elide]

SpecElide == InitElide /\ [][NextEncode]_vars

(***************************************************************************)
(* The same serializer on heaps whose bytecode has a long constant pool:   *)
(* a record is pointed to many times, with other records in between.       *)
(***************************************************************************)
MaxPool == 7

InitDedup ==
  /\ flag_verify = FALSE
  /\ flag_stress = FALSE
  /\ origin_options = FALSE
  /\ buffer = NoCachedData
  /\ rejected = [w \in Wrappers |-> FALSE]
  /\ main = MainIdle
  /\ worker = WorkerNone
  /\ data = DataNone
  /\ heap = <<>>
  /\ script_list = <<>>
  /\ samples = <<>>
  /\ finalized = <<>>
  /\ dchecks = {}
  /\ ret = NoOutcome
  /\ ncalls = 0
  /\ chk = <<>>
  /\ acd = NoAligned
  /\ sign = NoSign
  /\ \E pool \in SeqsUpTo({"extra", "info", "script"}, MaxPool) :
       /\ \E i \in 1..Len(pool) : pool[i] = "extra"
       /\ enc = NewSerializer("FixedArray", FALSE, FALSE, FALSE, "undefined", "undefined",
                              "empty_fixed_array", pool, "none", FALSE)

SpecDedup == InitDedup /\ [][NextEncode]_vars

(***************************************************************************)
(* The deserializer's reading of a payload (spec 4.4): each token resolves  *)
(* to a record, a new record's index being reserved before its fields are  *)
(* read.  A reference is the index of a new record or the name of a record *)
(* that exists outside the payload.                                        *)
(***************************************************************************)
NewRef(index) == [index |-> index, known |-> ""]
KnownRef(obj) == [index |-> 0, known |-> obj]

RECURSIVE ReadObject(_, _, _)
RECURSIVE ReadFields(_, _, _, _, _)
ReadObject(e, tokens, d) ==
  LET token == tokens[d.pos]
      operand == tokens[d.pos + 1]
  IN CASE token = kHotObject ->
            [d EXCEPT !.pos = @ + 2, !.hot = HotAdd(@, d.hot[operand + 1]),
                      !.ref = d.hot[operand + 1]]
       [] token = kRootArray ->
            [d EXCEPT !.pos = @ + 2, !.ref = KnownRef(e.root_table[operand + 1])]
       [] token = kBackref ->
            [d EXCEPT !.pos = @ + 2, !.hot = HotAdd(@, NewRef(operand + 1)),
                      !.ref = NewRef(operand + 1)]
       [] token = kAttachedReference ->
            [d EXCEPT !.pos = @ + 2, !.ref = KnownRef(e.attached[operand + 1])]
       [] token = kReadOnlyHeapRef ->
            [d EXCEPT !.pos = @ + 3,
                      !.ref = KnownRef(e.pages[operand + 1][tokens[d.pos + 2] \div kObjectAlignment])]
       [] token = kNewObject ->
            LET index == Len(d.objects) + 1
                reserved == [d EXCEPT !.pos = @ + 3,
                                      !.objects = Append(@, [kind |-> KindOrder[operand],
                                                             fields |-> <<>>]),
                                      !.hot = HotAdd(@, NewRef(index))]
                filled == ReadFields(e, tokens, reserved, index, tokens[d.pos + 2])
            IN [filled EXCEPT !.ref = NewRef(index)]

ReadFields(e, tokens, d, index, n) ==
  IF n = 0 THEN d
  ELSE LET read == ReadObject(e, tokens, d)
       IN ReadFields(e, tokens,
                     [read EXCEPT !.objects[index].fields = Append(@, read.ref)],
                     index, n - 1)

\* The graph a payload decodes to: its records in the order they are allocated,
\* and the reference to the root.
Deserialized(e, tokens) ==
  LET d == ReadObject(e, tokens, [pos |-> 1, objects |-> <<>>, hot |-> <<>>,
                                  ref |-> KnownRef("")])
  IN [root |-> d.ref, objects |-> d.objects]

\* The graph of the records the serializer has given an index, with the fields
\* they have in a heap, for comparison with a decoded graph.
RefOf(e, obj) ==
  IF PositionIn(e.reference_map, obj) # 0 THEN NewRef(PositionIn(e.reference_map, obj))
  ELSE KnownRef(obj)

GraphOf(e, fields) ==
  [root |-> RefOf(e, "info"),
   objects |-> [i \in 1..Len(e.reference_map) |->
                  LET obj == e.reference_map[i]
                  IN [kind |-> e.kind[obj],
                      fields |-> [j \in 1..Len(fields[obj]) |-> RefOf(e, fields[obj][j])]]]]

(***************************************************************************)
(* Properties                                                              *)
(***************************************************************************)
Applied == chk # <<>>

\* The checks of Phase A in the order of the claim, each with what makes it fail.
PhaseAChecks(b, verify) ==
  << [reason |-> kInvalidHeader,       fails |-> b.size < kHeaderSize],
     [reason |-> kMagicNumberMismatch, fails |-> b.magic # kMagicNumber],
     [reason |-> kVersionMismatch,     fails |-> b.version_hash # VersionHash],
     [reason |-> kFlagsMismatch,       fails |-> b.flags_hash # FlagHash],
     [reason |-> kLengthMismatch,      fails |-> b.payload_length > b.size - kHeaderSize],
     [reason |-> kChecksumMismatch,
      fails |-> verify /\ b.checksum # Checksum(ChecksummedContent(b))] >>

Defects(b, verify) == {i \in 1..6 : PhaseAChecks(b, verify)[i].fails}

\* C1: Phase A returns the reason of the first failing check in the order
\* TooSmall, BadMagic, VersionMismatch, ConfigMismatch, LengthMismatch,
\* ChecksumMismatch (the last only with checksumming on), and Success exactly
\* when no check fails; with several defects the earliest one wins.
C1_PhaseAFirstFailingWins ==
  Applied =>
    LET defects == Defects(buffer, flag_verify)
        result == chk[1].without.result
    IN /\ (defects = {}) <=> (result = kSuccess)
       /\ defects # {} =>
            \E i \in defects :
               /\ \A j \in defects : i <= j
               /\ result = PhaseAChecks(buffer, flag_verify)[i].reason

\* A buffer with a wrong version hash, a wrong flags hash and a wrong checksum.
C1_Witness ==
  /\ Applied
  /\ {3, 4, 6} \subseteq Defects(buffer, flag_verify)
  /\ chk[1].without.result = kVersionMismatch

\* C2: the combined check is Phase A and then, only if Phase A succeeded, Phase B:
\* a Phase A failure R is the combined result and the stored source hash is not
\* read (so no SourceMismatch); after a Phase A success the combined result is
\* Phase B's, Success or SourceMismatch.
C2_CombinedIsAThenB ==
  Applied =>
    LET a == chk[1].without
        b == chk[1].just
        full == chk[1].full
    IN /\ a.result # kSuccess =>
            /\ full.result = a.result
            /\ full.result # kSourceMismatch
            /\ "source_hash" \notin full.reads
       /\ a.result = kSuccess =>
            /\ full.result = b.result
            /\ full.result \in {kSuccess, kSourceMismatch}
            /\ "source_hash" \in full.reads

\* Phase A fails on a buffer whose stored source hash is not the expected one.
C2_Witness ==
  /\ Applied
  /\ chk[1].without.result = kLengthMismatch
  /\ buffer.source_hash # chk[1].expected
  /\ chk[1].just.result = kSourceMismatch

\* Whoever holds a failed sanity check result holds a rejected wrapper, and no
\* DCHECK(cached_data->rejected()) has failed.
RejectedOnFailure ==
  /\ dchecks \cap {"Deserialize:rejected", "Start:rejected", "Finish:rejected"} = {}
  /\ (ret.kind # "none" /\ ret.reason # kSuccess) => ret.rej1
  /\ (worker.pc = "returned" /\ worker.result.sanity_check_result # kSuccess)
        => rejected[worker.w]
  /\ (data.state # "none" /\ data.sanity_check_result # kSuccess) => rejected[data.w]

\* C3: a buffer that fails either phase is marked rejected and the flag is
\* sticky: a call that ends with a non-Success sanity reason leaves the wrapper's
\* rejected flag true, the three assertions "rejected when a sanity failure is
\* returned" (Decode, Start, Finish) hold, and no step of any later call makes a
\* true flag false.
C3_RejectedIsSticky ==
  /\ []RejectedOnFailure
  /\ [][\A w \in Wrappers : rejected[w] => rejected'[w]]_vars

\* A call succeeded on a wrapper that an earlier call had rejected: still rejected.
C3_Witness ==
  /\ ret.kind # "none" /\ ret.reason = kSuccess /\ ret.graph # <<>>
  /\ ret.rej0 /\ ret.rej1

\* The decoder step of a path comes second, right after that path's check.
DecodedAfterCheck(steps) ==
  \A i \in 1..Len(steps) : steps[i] = "deserialize" => (i = 2 /\ steps[1] = "check")

PhaseAFails == SanityCheckWithoutSource(buffer, flag_verify).result # kSuccess

\* C4: in the synchronous path and in the background Start path the decoder is
\* invoked only after the sanity check of that path returned Success, and for a
\* buffer that fails Phase A no decoder step and no allocation ever occurs.
C4_NoDecodeBeforeSuccess ==
  /\ main.pc = "D_deserialize" =>
       /\ main.sanity_check_result = kSuccess
       /\ SanityCheck(buffer, SourceHash(main.source, main.is_module),
                      flag_verify).result = kSuccess
  /\ worker.pc = "S_deserialize" =>
       /\ worker.result.sanity_check_result = kSuccess
       /\ ~PhaseAFails
  /\ \A steps \in {main.steps, worker.result.steps, data.steps, ret.steps} :
       DecodedAfterCheck(steps)
  /\ (ret.kind = "Deserialize" /\ ret.reason # kSuccess) => ret.steps = <<"check">>
  /\ (\/ heap # <<>>
      \/ \E steps \in {main.steps, worker.result.steps, data.steps, ret.steps} :
            \E i \in 1..Len(steps) : steps[i] = "deserialize") => ~PhaseAFails

\* Both calls were made on an entry with a damaged magic number; nothing was allocated.
C4_Witness ==
  /\ buffer.size >= kHeaderSize /\ buffer.magic # kMagicNumber
  /\ ncalls = MaxCalls /\ main.pc = "idle" /\ worker.pc = "none" /\ data.state = "none"
  /\ ret.reason = kMagicNumberMismatch
  /\ heap = <<>>

\* C5: Finish replays Phase B from the result Start stored and never changes a
\* stored Phase A failure: a stored failure R is Finish's reason and the source
\* hash is not compared; after a stored Success the reason is Success or
\* SourceMismatch, as Phase B says.  So a reason that differs from the stored one,
\* or a failure although a decoded result exists, is SourceMismatch, and the two
\* assertions of Finish (and the two of the replay) hold.
C5_FinishKeepsStoredFailure ==
  /\ dchecks \cap {"Finish:result_implies_source_mismatch",
                   "Finish:changed_implies_source_mismatch",
                   "FromPartially:DCHECK_NE", "FromPartially:DCHECK_EQ"} = {}
  /\ ret.kind = "OffThread" =>
       /\ ret.stored = SanityCheckWithoutSource(buffer, flag_verify).result
       /\ ret.stored # kSuccess =>
            /\ ret.reason = ret.stored
            /\ ret.reason \notin {kSuccess, kSourceMismatch}
            /\ ret.finish_reads = {}
       /\ ret.stored = kSuccess =>
            /\ ret.reason \in {kSuccess, kSourceMismatch}
            /\ ret.reason = SanityCheckJustSource(
                              buffer, SourceHash(ret.source, ret.is_module)).result
            /\ ret.finish_reads = {"source_hash"}
       /\ ret.reason # ret.stored => ret.reason = kSourceMismatch
       /\ (ret.id \in DOMAIN heap /\ ret.reason # kSuccess)
            => ret.reason = kSourceMismatch

\* Finish returned the stored flags mismatch although the source does not match either.
C5_Witness ==
  /\ ret.kind = "OffThread"
  /\ ret.stored = kFlagsMismatch /\ ret.reason = kFlagsMismatch
  /\ buffer.source_hash # SourceHash(ret.source, ret.is_module)

\* The OffThreadDeserializeData values Start has returned and Finish has not consumed.
StartResults ==
  (IF worker.pc = "returned" THEN {worker.result} ELSE {})
    \cup (IF data.state # "none" THEN {data} ELSE {})

\* C6: Start runs Phase A only and stops on failure: after a Phase A failure it
\* returns the reason with no decoded result, no script in its script list and no
\* detached handle set, the decoder not having run; after a Phase A success it
\* has run the decoder, then detached the handles, and stored Success.  Start
\* never reads the stored source hash (no Phase B).
C6_StartRunsPhaseAOnly ==
  /\ worker.pc \in {"S_deserialize", "S_detach"} =>
       worker.result.sanity_check_result = kSuccess
  /\ "source_hash" \notin worker.result.reads
  /\ \A d \in StartResults :
       /\ d.sanity_check_result = SanityCheckWithoutSource(buffer, flag_verify).result
       /\ "source_hash" \notin d.reads
       /\ d.sanity_check_result # kSuccess =>
            /\ d.steps = <<"check">>
            /\ d.maybe_result = 0 /\ d.scripts = <<>>
            /\ ~d.has_persistent_handles /\ d.persistent_handles = {}
            /\ d.id \notin DOMAIN heap
       /\ d.sanity_check_result = kSuccess =>
            /\ d.steps = <<"check", "deserialize", "detach">>
            /\ d.has_persistent_handles
            /\ d.alloc_ok =>
                 /\ d.maybe_result = d.id /\ d.scripts = <<d.id>>
                 /\ d.persistent_handles = {<<"sfi", d.id>>, <<"script", d.id>>}
                 /\ d.id \in DOMAIN heap
            /\ ~d.alloc_ok =>
                 /\ d.maybe_result = 0 /\ d.scripts = <<>>
                 /\ d.persistent_handles = {}

\* Start has returned a length mismatch for an entry whose source hash nobody read.
C6_Witness ==
  /\ worker.pc = "returned"
  /\ worker.result.sanity_check_result = kLengthMismatch
  /\ worker.result.steps = <<"check">>
  /\ ~worker.result.has_persistent_handles

\* Every script in the script list belongs to a decode whose Finish has installed
\* the source and appended it; none belongs to a decode Finish has not reached.
RegistryHoldsFinishedOnly ==
  \A i \in 1..Len(script_list) :
     /\ script_list[i] \in DOMAIN heap
     /\ worker.pc # "none" => script_list[i] # worker.result.id
     /\ (data.state # "none" /\ script_list[i] = data.id) =>
          /\ main.pc = "F_finalize"
          /\ main.steps = <<"check", "handle", "source", "scripts">>
          /\ heap[script_list[i]].source = main.source

\* C7: in every interleaving of a background decode with the controlling thread
\* the script list changes, and the transferred persistent handle is turned into
\* a regular handle, only in steps of Finish on the controlling thread; the
\* worker running Start leaves the script list alone, so the list never holds a
\* script of a decode whose Finish has not run.
C7_RegistryOnlyInFinish ==
  /\ []RegistryHoldsFinishedOnly
  /\ [][script_list' # script_list =>
          /\ main.pc = "F_scripts" /\ main'.pc = "F_finalize"
          /\ script_list' = script_list \o data.scripts
          /\ worker' = worker]_vars
  /\ [][(main'.regular_handle /\ ~main.regular_handle) =>
          /\ main.pc = "F_handle" /\ main'.pc = "F_source"
          /\ worker' = worker]_vars
  /\ [][worker' # worker => script_list' = script_list]_vars

\* Finish has appended the script of one decode while the worker is in the middle of
\* the next Start, holding handles of its own.
C7_Witness ==
  /\ main.pc = "F_finalize" /\ script_list = <<data.id>>
  /\ worker.pc = "S_detach" /\ worker.local_handles # {}
  /\ worker.result.id \in DOMAIN heap

InSeq(x, seq) == \E i \in 1..Len(seq) : seq[i] = x

\* C8: within a successful Finish the steps come in the order Phase B check,
\* result handle made regular, true source installed, scripts appended to the
\* script list, finalize: at each position of Finish exactly the earlier steps
\* have taken effect and none of the later ones; the last step is
\* FinalizeDeserialization, as in the synchronous Deserialize.
C8_FinishStepOrder ==
  /\ main.pc \in {"F_result", "F_handle"} =>
       /\ main.steps = <<"check">> /\ main.sanity_check_result = kSuccess
       /\ ~main.regular_handle
       /\ ~InSeq(data.id, script_list) /\ ~InSeq(data.id, finalized)
       /\ data.id \in DOMAIN heap => heap[data.id].source = empty_string
  /\ main.pc = "F_source" =>
       /\ main.steps = <<"check", "handle">> /\ main.regular_handle
       /\ heap[main.result].source = empty_string
       /\ ~InSeq(main.result, script_list) /\ ~InSeq(main.result, finalized)
  /\ main.pc = "F_scripts" =>
       /\ main.steps = <<"check", "handle", "source">> /\ main.regular_handle
       /\ heap[main.result].source = main.source
       /\ ~InSeq(main.result, script_list) /\ ~InSeq(main.result, finalized)
  /\ main.pc = "F_finalize" =>
       /\ main.steps = <<"check", "handle", "source", "scripts">> /\ main.regular_handle
       /\ heap[main.result].source = main.source
       /\ InSeq(main.result, script_list) /\ ~InSeq(main.result, finalized)
  /\ (ret.kind = "OffThread" /\ ret.graph # <<>>) =>
       /\ ret.steps = <<"check", "handle", "source", "scripts", "finalize">>
       /\ ret.list1 = Append(ret.list0, ret.id)
       /\ ret.fin1 = Append(ret.fin0, ret.id)
  /\ (ret.kind = "Deserialize" /\ ret.graph # <<>>) =>
       /\ ret.steps = <<"check", "deserialize", "finalize">>
       /\ ret.fin1 = Append(ret.fin0, ret.id)

\* A Finish has returned its result after all five steps.
C8_Witness ==
  /\ ret.kind = "OffThread" /\ ret.graph # <<>>
  /\ ret.steps = <<"check", "handle", "source", "scripts", "finalize">>
  /\ InSeq(ret.id, script_list) /\ InSeq(ret.id, finalized)

\* A script carries an installed source only if its decode succeeded: it has been
\* finalized, or its call is past the point where every failure return lies.
SourceOnlyOnSuccess ==
  \A id \in DOMAIN heap :
     heap[id].source # empty_string =>
       \/ InSeq(id, finalized)
       \/ main.result = id /\ main.pc \in {"D_finalize", "F_scripts", "F_finalize"}

\* C9: no partial commit on failure: when Deserialize or Finish returns no result
\* (failed sanity check, SourceMismatch found in Finish after a background decode
\* that succeeded, or failed allocation in the decoder) the script list is as it
\* was at the call, no source was installed on a script and
\* FinalizeDeserialization did not run.
C9_NoPartialCommit ==
  /\ SourceOnlyOnSuccess
  /\ (ret.kind # "none" /\ ret.graph = <<>>) =>
       /\ ret.list1 = ret.list0
       /\ ret.fin1 = ret.fin0
       /\ \A i \in 1..Len(ret.steps) : ret.steps[i] \in {"check", "deserialize"}
       /\ ~InSeq(ret.id, script_list) /\ ~InSeq(ret.id, finalized)
       /\ ret.id \in DOMAIN heap => heap[ret.id].source = empty_string

\* After one decode was committed, a Finish found a source mismatch on a decode the
\* worker had completed: its script exists, uncommitted.
C9_Witness ==
  /\ ret.kind = "OffThread" /\ ret.reason = kSourceMismatch /\ ret.graph = <<>>
  /\ ret.source # empty_string
  /\ ret.id \in DOMAIN heap
  /\ ret.list0 # <<>> /\ script_list = ret.list0

\* What Deserialize without FLAG_stress_background_compile yields for the entry:
\* sanity reason, final rejected flag, returned graph.
DecodeOutcome(was_rejected, source, is_module, alloc_ok, id) ==
  LET scd == FromCachedData(buffer, was_rejected, SourceHash(source, is_module),
                            flag_verify)
  IN IF scd.rejection_result # kSuccess
     THEN [reason |-> scd.rejection_result, rejected |-> scd.rejected, graph |-> <<>>]
     ELSE LET d == DeserializeSharedFunctionInfo(scd.scd[1], source, alloc_ok, id)
          IN [reason |-> kSuccess, rejected |-> scd.rejected,
              graph |-> Graph(d.allocated, d.maybe_result)]

\* C10: background/foreground equivalence: for every entry, source and origin
\* options, Start followed by Finish ends as the synchronous Deserialize does --
\* both fail or both succeed, with the same sanity reason and the same final
\* rejected flag, and on success with an equal graph whose script carries the
\* true source.
C10_BackgroundEqualsForeground ==
  ret.kind \in {"OffThread", "Deserialize"} =>
    LET decode == DecodeOutcome(ret.rej0, ret.source, ret.is_module, ret.alloc_ok, ret.id)
    IN /\ ret.reason = decode.reason
       /\ ret.rej1 = decode.rejected
       /\ ret.graph = decode.graph
       /\ ret.graph # <<>> => ret.graph[1].source = ret.source

\* Start and Finish have returned a graph whose script has the caller's source.
C10_Witness ==
  /\ ret.kind = "OffThread" /\ ret.reason = kSuccess
  /\ ret.source # empty_string
  /\ ret.graph = <<[source |-> ret.source, body |-> Payload(buffer)]>>

\* The (source, module flag) pairs an unmodified entry may have been written from.
WrittenWithChecksum == WrittenEntries(TRUE)
WrittenWithoutChecksum == WrittenEntries(FALSE)

Unmodified ==
  buffer \in (IF flag_verify THEN WrittenWithChecksum ELSE WrittenWithoutChecksum)

WrittenFrom ==
  IF Unmodified
  THEN {sm \in Sources \X BOOLEAN : buffer.source_hash = SourceHash(sm[1], sm[2])}
  ELSE {}

\* C12: source binding: an entry written from (sourceA, flags) and not modified
\* passes the sanity check of a decode with sourceA and the same flags; a decode
\* with a source of another length, or with the other module flag, returns
\* SourceMismatch and leaves the wrapper rejected.
C12_SourceBinding ==
  ret.kind # "none" =>
    \A sm \in WrittenFrom :
       /\ (Len(ret.source) = Len(sm[1]) /\ ret.is_module = sm[2]) =>
            /\ ret.reason = kSuccess
            /\ ret.rej1 = ret.rej0
       /\ (Len(ret.source) # Len(sm[1]) \/ ret.is_module # sm[2]) =>
            /\ ret.reason = kSourceMismatch /\ ret.graph = <<>>
            /\ ret.rej1

\* A decode with a source of the right length but the other module flag was rejected.
C12_Witness ==
  /\ ret.kind # "none" /\ ret.reason = kSourceMismatch /\ ret.rej1
  /\ \E sm \in WrittenFrom : Len(sm[1]) = Len(ret.source) /\ sm[2] # ret.is_module

\* C13: the source hash is the 32-bit value length | (module flag << 31): the low
\* 31 bits are the length and bit 31 is the module flag; for every length below
\* 2^31 the assertion that the length leaves bit 31 clear holds; and two inputs
\* have equal hashes exactly when they have the same length and module flag.
C13_SourceHashInjective ==
  Applied =>
    LET a == chk[1].a
        b == chk[1].b
    IN /\ \A x \in {a, b} :
            /\ x.result.dcheck
            /\ x.result.hash[2] = x.source_length[2]
            /\ x.result.hash[1] =
                 x.source_length[1] + (IF x.is_module THEN kModuleFlagMask[1] ELSE 0)
       /\ (a.result.hash = b.result.hash)
            <=> (a.source_length = b.source_length /\ a.is_module = b.is_module)

\* Two sources of length 2^30, one a module: the hashes differ in bit 31 only.
C13_Witness ==
  /\ Applied
  /\ chk[1].a.source_length = <<kModuleFlagMask[1] \div 2, 0>> /\ chk[1].a.is_module
  /\ chk[1].b.source_length = chk[1].a.source_length /\ ~chk[1].b.is_module
  /\ chk[1].a.result.hash = <<kModuleFlagMask[1] + kModuleFlagMask[1] \div 2, 0>>
  /\ chk[1].b.result.hash = chk[1].b.source_length

\* C14: length bound: with size, magic, version hash and flags hash valid, a
\* stored payload length of size - header size + 1 or more yields LengthMismatch
\* and one of exactly size - header size (or less) does not; the uint32_t
\* subtraction size - header size is evaluated only when size >= header size,
\* where it does not wrap around.
C14_LengthBound ==
  Applied =>
    LET result == chk[1].without
    IN /\ buffer.size < kHeaderSize =>
            /\ result.result = kInvalidHeader
            /\ "payload_length" \notin result.reads
       /\ "payload_length" \in result.reads =>
            /\ buffer.size >= kHeaderSize
            /\ Sub32(buffer.size, kHeaderSize) = U32(buffer.size - kHeaderSize)
       /\ (/\ buffer.size >= kHeaderSize /\ buffer.magic = kMagicNumber
           /\ buffer.version_hash = VersionHash /\ buffer.flags_hash = FlagHash) =>
            /\ buffer.payload_length >= buffer.size - kHeaderSize + 1
                 => result.result = kLengthMismatch
            /\ buffer.payload_length <= buffer.size - kHeaderSize
                 => result.result # kLengthMismatch

\* A buffer with a payload, valid but for a stored length one above the room left.
C14_Witness ==
  /\ Applied
  /\ buffer.size > kHeaderSize
  /\ buffer.payload_length = buffer.size - kHeaderSize + 1
  /\ chk[1].without.result = kLengthMismatch

\* The sanity check results the calls have obtained so far, with the fields read.
ObservedChecks ==
  {[result |-> d.sanity_check_result, reads |-> d.reads] : d \in StartResults}
    \cup (IF ret.kind = "none" THEN {}
          ELSE {[result |-> ret.reason, reads |-> ret.reads]})

\* C16: the writer and Phase A take the checksum of the same content (the header
\* without the checksum field, plus the payload): an unmodified entry written with
\* checksumming on holds the checksum Phase A computes and passes Phase A; with
\* checksumming off the writer stores 0 and Phase A neither reads the field nor
\* reports ChecksumMismatch, whatever the field holds.
C16_ChecksumAgreement ==
  /\ WrittenFrom # {} =>
       /\ flag_verify => buffer.checksum = Checksum(ChecksummedContent(buffer))
       /\ ~flag_verify => buffer.checksum = 0
       /\ \A o \in ObservedChecks :
            /\ o.result \in {kSuccess, kSourceMismatch}
            /\ flag_verify => "checksum" \in o.reads
  /\ ~flag_verify =>
       \A o \in ObservedChecks :
          o.result # kChecksumMismatch /\ "checksum" \notin o.reads

\* An unmodified entry written with checksumming on has passed the checksum check.
C16_Witness ==
  /\ flag_verify /\ WrittenFrom # {}
  /\ buffer.checksum # 0
  /\ ret.kind # "none" /\ ret.reason = kSuccess /\ "checksum" \in ret.reads

\* A decode has returned that was made on the entry as it is damaged now.
DecodedDamagedAt(offset) ==
  /\ chk # <<>> /\ chk[1].offset = offset
  /\ ret.kind # "none" /\ ret.id = chk[1].calls + 1

\* C15 as stated: with the byte at offset 0 damaged Decode returns BadMagic; with
\* it restored and the source hash field at offset 12 damaged Decode passes
\* Phase A, the checksum check included when checksumming is on, and fails Phase B
\* with SourceMismatch for the true source of 42 characters.
C15_TamperScenarioAsStated ==
  /\ DecodedDamagedAt(0) => ret.reason = kMagicNumberMismatch
  /\ DecodedDamagedAt(12) =>
       /\ ret.reason = kSourceMismatch
       /\ "source_hash" \in ret.reads
       /\ flag_verify => "checksum" \in ret.reads

\* C15 (amended): with the byte at offset 0 damaged Decode returns BadMagic and
\* allocates nothing; with it restored and the source hash field at offset 12
\* damaged, Decode with the true source of 42 characters, when checksumming is
\* off, passes every check of Phase A and fails Phase B with SourceMismatch.
C15_TamperScenario ==
  /\ DecodedDamagedAt(0) =>
       /\ ret.reason = kMagicNumberMismatch /\ ret.graph = <<>> /\ ret.rej1
       /\ ret.steps = <<"check">>
  /\ (DecodedDamagedAt(12) /\ ~flag_verify) =>
       /\ ret.reason = kSourceMismatch /\ ret.graph = <<>> /\ ret.rej1
       /\ ret.reads = {"magic", "version_hash", "flags_hash", "payload_length",
                       "source_hash"}

\* With checksumming off: after BadMagic for the damaged magic number, the
\* second decode, of the entry with a damaged source hash field, has returned.
C15_Witness ==
  /\ DecodedDamagedAt(12) /\ ret.id = 2 /\ ~flag_verify
  /\ samples[1] = kMagicNumberMismatch
  /\ buffer.source_hash # SourceHash(ScenarioSource, FALSE)
  /\ Len(ret.source) = 42 /\ buffer.payload_length = 128

\* A synchronous decode of the entry Serialize produced has returned.
DecodedEncoded == enc.pc = "done" /\ ret.kind = "Deserialize"

\* What the payload holds of a record: undefined for an elided one.
Placeholder(e, obj) ==
  IF obj \in e.elide /\ PositionIn(e.root_table, obj) = 0 /\ ReadOnlyPageOf(e.pages, obj) = 0
  THEN "undefined" ELSE obj

\* The fields the serializer writes: those of the heap, with the context data of a
\* Script read as undefined unless it is undefined or the uninitialized symbol,
\* its host-defined options as the empty array, the DebugInfo of a
\* SharedFunctionInfo as its script and its instrumented bytecode as the
\* original, an elided record as undefined.
SerializedFields(e) ==
  [obj \in DOMAIN e.fields0 |->
     [j \in 1..Len(e.fields0[obj]) |->
        LET field == e.fields0[obj][j]
            debug_info == e.fields0[obj][kScriptOrDebugInfoField]
        IN IF e.kind[obj] = "Script" /\ j = kContextDataField
           THEN (IF field = "uninitialized_symbol" THEN field ELSE "undefined")
           ELSE IF e.kind[obj] = "Script" /\ j = kHostDefinedOptionsField
           THEN "empty_fixed_array"
           ELSE IF e.kind[obj] = "SharedFunctionInfo" /\ e.kind[debug_info] = "DebugInfo"
           THEN (IF j = kScriptOrDebugInfoField
                 THEN e.fields0[debug_info][kDebugInfoScriptField]
                 ELSE IF e.kind[e.fields0[debug_info][kOriginalBytecodeField]] = "BytecodeArray"
                 THEN e.fields0[debug_info][kOriginalBytecodeField]
                 ELSE Placeholder(e, field))
           ELSE Placeholder(e, field)]]

\* The records reachable from a set of records through their fields.
RECURSIVE Closure(_, _)
Closure(fields, set) ==
  LET next == set \cup UNION {{fields[obj][j] : j \in 1..Len(fields[obj])} : obj \in set}
  IN IF next = set THEN set ELSE Closure(fields, next)

NoIllegalKind(e) ==
  \A obj \in Closure(e.fields0, {"info"}) : e.kind[obj] \notin IllegalKinds

C17_HeaderInvariant ==
  enc.pc = "done" =>
    LET scd == enc.cached_data[1]
    IN /\ buffer = scd /\ scd.payload = Pad(enc.sink)
       /\ scd.payload_length = Len(scd.payload)
       /\ scd.payload_length <= scd.size - kHeaderSize
       /\ scd.size % kPointerAlignment = 0
       /\ "SerializedCodeData:DCHECK(IsAligned)" \notin dchecks
       /\ kHeaderSize - kUnalignedHeaderSize = 0
       /\ SanityCheckWithoutSource(scd, flag_verify).result = kSuccess
       /\ SanityCheckJustSource(scd, SourceHash(ScriptSource, origin_options)).result
            = kSuccess

\* An entry written with a checksum whose token stream needed padding.
C17_Witness ==
  /\ enc.pc = "done" /\ flag_verify
  /\ Len(enc.sink) % kPointerAlignment # 0
  /\ enc.cached_data[1].payload_length > Len(enc.sink)
  /\ enc.cached_data[1].checksum # 0

\* The serialization of the Script has ended: SerializeGeneric has returned for
\* it, or a CHECK has stopped the process while it ran.
ScriptLeft ==
  /\ PositionIn(enc.reference_map, "script") # 0
  /\ \/ enc.pc = "fatal"
     \/ \A i \in 1..Len(enc.stack) : enc.stack[i].obj # "script"

\* C18: once the serialization of a Script has ended, by return or by a CHECK
\* that fails in the generic serialization of the script or of a record reachable
\* from it, its context data and host-defined options are what they were before.
C18_MutationRestoration ==
  ScriptLeft =>
    /\ enc.fields["script"][kContextDataField] = enc.fields0["script"][kContextDataField]
    /\ enc.fields["script"][kHostDefinedOptionsField] =
         enc.fields0["script"][kHostDefinedOptionsField]

\* What holds instead: the two fields are restored whenever SerializeGeneric has
\* returned for the Script, and only these two fields and the two of a
\* SharedFunctionInfo under debugging ever change.
C18_RestoredOnReturn ==
  /\ (ScriptLeft /\ enc.pc # "fatal") =>
       enc.fields["script"] = enc.fields0["script"]
  /\ enc.pc # "none" =>
       \A obj \in DOMAIN enc.fields0 : \A j \in 1..Len(enc.fields0[obj]) :
          enc.fields[obj][j] # enc.fields0[obj][j] =>
            /\ \/ obj = "script" /\ j \in {kContextDataField, kHostDefinedOptionsField}
               \/ obj = "info"
            /\ \E i \in 1..Len(enc.stack) : enc.stack[i].obj = obj

\* SerializeObjectImpl has just been called for a record.
Visited == enc.pc # "none" /\ enc.last # <<>> /\ enc.step \notin {"none", "return"}

\* The sink has grown by one token of the given code and length, and nothing
\* else of the serializer's tables has: no later step ran.
OnlyToken(code, length) ==
  /\ Len(enc.sink) = Len(enc.last[1].sink) + length
  /\ SubSeq(enc.sink, 1, Len(enc.last[1].sink)) = enc.last[1].sink
  /\ enc.sink[Len(enc.last[1].sink) + 1] = code
  /\ enc.reference_map = enc.last[1].reference_map
  /\ enc.pc = "running" /\ enc.fields = enc.last[1].fields

\* C19: SerializeObjectImpl emits for every record the token of the first step
\* that matches it, in the order hot-object cache, root table, reference map,
\* read-only space, and then does nothing else; the full serialization, the
\* elision and the kind checks are reached only by a record no step matches.
C19_PriorityOrder ==
  Visited =>
    LET v == enc.last[1]
    IN /\ v.hot => enc.step = "hot" /\ OnlyToken(kHotObject, 2)
       /\ (~v.hot /\ v.root) => enc.step = "root" /\ OnlyToken(kRootArray, 2)
       /\ (~v.hot /\ ~v.root /\ v.back_reference) =>
            /\ enc.step = "back-reference"
            /\ OnlyToken(kBackref, 2) \/ OnlyToken(kAttachedReference, 2)
       /\ (~v.hot /\ ~v.root /\ ~v.back_reference /\ v.read_only) =>
            enc.step = "read-only" /\ OnlyToken(kReadOnlyHeapRef, 3)
       /\ (~v.hot /\ ~v.root /\ ~v.back_reference /\ ~v.read_only) =>
            enc.step \in {"full", "elided", "fatal"}

\* A record that is in the hot-object cache and in the reference map has been
\* emitted as a hot object; undefined, which is in the root table and in the
\* read-only space, was emitted before it.
C19_Witness ==
  /\ Visited /\ enc.step = "hot"
  /\ enc.last[1].hot /\ enc.last[1].back_reference
  /\ PositionIn(enc.root_table, "undefined") # 0 /\ ReadOnlyPageOf(enc.pages, "undefined") # 0
  /\ enc.fields0["script"][kContextDataField] = "undefined"

\* SerializeObjectImpl has just been called for a record of an illegal kind that
\* none of the four reference steps matches and that is not elided (a Code
\* object is checked before the elision).
IllegalReached ==
  /\ Visited
  /\ ~enc.last[1].hot /\ ~enc.last[1].root /\ ~enc.last[1].back_reference
  /\ ~enc.last[1].read_only
  /\ enc.last[1].kind \in IllegalKinds
  /\ enc.last[1].kind = "Code" \/ ~enc.last[1].elide

EdgesTo(e, obj) ==
  Cardinality({rj \in UNION {{<<r, j>> : j \in 1..Len(e.fields0[r])} :
                                r \in {e.reference_map[i] : i \in 1..Len(e.reference_map)}} :
                 SerializedFields(e)[rj[1]][rj[2]] = obj})
  + (IF obj = "info" THEN 1 ELSE 0)

\* The SerializeObject calls made for a record that wrote a token of some code.
VisitsWith(e, obj, code) ==
  {i \in 1..Len(e.visits) : e.visits[i].obj = obj /\ e.visits[i].tokens # <<>>
                               /\ e.visits[i].tokens[1] = code}

\* C21 as stated: a record that five pointers of the serialized graph lead to
\* is serialized in full once and written as a hot-object token the four other
\* times, whatever is serialized between the visits.
C21_HotCacheDedupAsStated ==
  enc.pc = "done" =>
    \A obj \in {enc.reference_map[i] : i \in 1..Len(enc.reference_map)} :
       EdgesTo(enc, obj) = 5 =>
         /\ Cardinality(VisitsWith(enc, obj, kNewObject)) = 1
         /\ Cardinality(VisitsWith(enc, obj, kHotObject)) = 4

\* C21 (amended): a record that n pointers of the serialized graph lead to (five,
\* for one) is serialized in full once, at its first visit, and written as one short
\* token each of the n - 1 other times: a hot-object token of two bytes when the
\* record is in the hot-object cache at that visit, a back-reference token
\* otherwise.
C21_HotCacheDedup ==
  enc.pc = "done" =>
    \A obj \in {enc.reference_map[i] : i \in 1..Len(enc.reference_map)} :
       LET full == VisitsWith(enc, obj, kNewObject)
           hot == VisitsWith(enc, obj, kHotObject)
           back == VisitsWith(enc, obj, kBackref)
           all == {i \in 1..Len(enc.visits) : enc.visits[i].obj = obj}
       IN /\ Cardinality(full) = 1
          /\ \A i \in full : \A j \in all : i <= j
          /\ Cardinality(all) = EdgesTo(enc, obj)
          /\ Cardinality(hot) + Cardinality(back) = EdgesTo(enc, obj) - 1
          /\ \A i \in all \ full :
               /\ Len(enc.visits[i].tokens) = 2
               /\ enc.visits[i].hot <=> i \in hot

\* Five pointers lead to one array; two other records were serialized between
\* two of its visits, and that visit was written as a back reference.
C21_Witness ==
  /\ enc.pc = "done" /\ EdgesTo(enc, "extra") = 5
  /\ Cardinality(VisitsWith(enc, "extra", kNewObject)) = 1
  /\ Cardinality(VisitsWith(enc, "extra", kHotObject)) = 3
  /\ Cardinality(VisitsWith(enc, "extra", kBackref)) = 1

\* What is left to do of a running serialization: the pointers waiting in the
\* frames (an undefined standing in for an elided record counts once, any other
\* twice), the frames, and for each record not yet serialized in full its fields
\* and itself, twice.
Remaining(e) ==
  LET waiting == UNION {{<<i, k>> : k \in 1..Len(e.stack[i].todo)} : i \in 1..Len(e.stack)}
      serialized == {e.reference_map[i] : i \in 1..Len(e.reference_map)}
  IN Cardinality(waiting)
     + Cardinality({ik \in waiting : e.stack[ik[1]].todo[ik[2]] # "undefined"})
     + Len(e.stack)
     + 2 * Cardinality(UNION {{<<r, j>> : j \in 0..Len(e.fields0[r])} :
                               r \in (DOMAIN e.fields0) \ serialized})

\* C22, in states: Serialize returns nullptr exactly for a script with an asm
\* module, and then nothing has been written, no CodeSerializer state and no
\* entry exist and no field of the heap has changed; it stops in a CHECK only
\* at a record of an illegal kind; in every other case it is running with a
\* step to take, or has returned an entry.
C22_State ==
  /\ enc.pc = "nullptr" =>
       /\ enc.asm
       /\ enc.sink = <<>> /\ enc.reference_map = <<>> /\ enc.attached = <<>>
       /\ enc.hot = <<>> /\ enc.stack = <<>> /\ enc.visits = <<>>
       /\ enc.cached_data = <<>> /\ buffer = NoCachedData
       /\ enc.fields = enc.fields0
  /\ (enc.pc \notin {"none", "idle"} /\ enc.asm) => enc.pc = "nullptr"
  /\ enc.pc = "fatal" =>
       /\ enc.last[1].kind \in IllegalKinds
       /\ enc.cached_data = <<>> /\ buffer = NoCachedData
  /\ enc.pc = "running" => enc.stack # <<>>
  /\ enc.pc = "done" => ~enc.asm /\ enc.cached_data = <<buffer>>
  /\ enc.pc \in {"none", "idle", "nullptr", "running", "fatal", "done"}

\* C22, in steps: every step of a running serialization reduces what is left
\* to do, so Serialize returns or stops in a CHECK after finitely many steps.
C22_Step ==
  (enc.pc = "running" /\ enc' # enc) =>
    /\ Remaining(enc') < Remaining(enc)
    /\ enc'.pc \in {"running", "fatal", "done"}

InSerializeGeneric(e, obj) == \E i \in 1..Len(e.stack) : e.stack[i].obj = obj

\* SerializeGeneric has returned for a record.
SerializeGenericDone(e, obj) ==
  /\ PositionIn(e.reference_map, obj) # 0
  /\ ~InSerializeGeneric(e, obj) /\ e.pc # "fatal"

\* C29: while SerializeGeneric runs for a SharedFunctionInfo that had a
\* DebugInfo, its script_or_debug_info is the script of that DebugInfo and, when
\* the DebugInfo has an instrumented bytecode array, its active bytecode is the
\* original one; once SerializeGeneric has returned, the DebugInfo and the
\* active bytecode are the ones it had before.  A SharedFunctionInfo without
\* DebugInfo, the DebugInfo itself and the bytecode arrays never change, and no
\* DebugInfo is ever serialized.
C29_DebugTransform ==
  enc.pc \notin {"none", "idle"} =>
    /\ \A sfi \in {r \in DOMAIN enc.kind : enc.kind[r] = "SharedFunctionInfo"} :
         LET debug_info == enc.fields0[sfi][kScriptOrDebugInfoField]
             has_debug_info == enc.kind[debug_info] = "DebugInfo"
             original == enc.fields0[debug_info][kOriginalBytecodeField]
         IN /\ (InSerializeGeneric(enc, sfi) /\ has_debug_info) =>
                 /\ enc.fields[sfi][kScriptOrDebugInfoField] =
                      enc.fields0[debug_info][kDebugInfoScriptField]
                 /\ enc.kind[enc.fields[sfi][kScriptOrDebugInfoField]] = "Script"
                 /\ enc.fields[sfi][kFunctionDataField] =
                      (IF enc.kind[original] = "BytecodeArray" THEN original
                       ELSE enc.fields0[sfi][kFunctionDataField])
            /\ SerializeGenericDone(enc, sfi) => enc.fields[sfi] = enc.fields0[sfi]
            /\ ~has_debug_info => enc.fields[sfi] = enc.fields0[sfi]
    /\ \A r \in DOMAIN enc.kind :
         enc.kind[r] \in {"DebugInfo", "BytecodeArray"} =>
           /\ enc.fields[r] = enc.fields0[r]
           /\ enc.kind[r] = "DebugInfo" => PositionIn(enc.reference_map, r) = 0

\* Serialize has returned an entry for a function with break points set: its
\* original bytecode was serialized, the instrumented copy was not, and the
\* function has its DebugInfo and the instrumented bytecode again.
C29_Witness ==
  /\ enc.pc = "done"
  /\ enc.fields0["info"] = <<"debug_info", "debug_bytecode">>
  /\ enc.fields["info"] = <<"debug_info", "debug_bytecode">>
  /\ PositionIn(enc.reference_map, "bytecode") # 0
  /\ PositionIn(enc.reference_map, "debug_bytecode") = 0
  /\ enc.fields0["bytecode"] = <<"info", "extra">>

\* The context data and host-defined options a Script may have.
ContextDatas == {"undefined", "uninitialized_symbol", "native_context"}
HostDefinedOptions == {"empty_fixed_array", "host_options"}

\* Serialize has returned an entry and nothing has been done with it yet.
Serialized == enc.pc = "done" /\ ncalls = 0

\* The payload Serialize writes for the heap of enc with the given context data
\* and host-defined options is the payload it has written for the heap of enc.
SamePayloadWith(context_data, host_defined_options) ==
  LET other == SerializeAll(SerializeStart(
                 WithScriptFields(enc, context_data, host_defined_options), origin_options))
  IN other.pc = "done" /\ other.sink = enc.cached_data[1].payload

\* C30 as stated: a heap that differs from the serialized one only in the
\* context data and the host-defined options of the Script gives the same
\* payload, and while SerializeGeneric runs for the Script its context data is
\* undefined and its host-defined options are the empty array.
C30_EnvironmentFieldsAsStated ==
  /\ Serialized =>
       \A context_data \in ContextDatas, host_defined_options \in HostDefinedOptions :
          SamePayloadWith(context_data, host_defined_options)
  /\ (enc.pc \notin {"none", "idle"} /\ InSerializeGeneric(enc, "script")) =>
       /\ enc.fields["script"][kContextDataField] = "undefined"
       /\ enc.fields["script"][kHostDefinedOptionsField] = "empty_fixed_array"

\* C30 (amended): a heap that differs from the serialized one only in the
\* context data and the host-defined options of the Script gives the same
\* payload provided the context data is the uninitialized symbol in both or in
\* neither; while SerializeGeneric runs for the Script its host-defined options
\* are the empty array and its context data is undefined, or the uninitialized
\* symbol when it was that before.
C30_EnvironmentFields ==
  /\ Serialized =>
       \A context_data \in ContextDatas, host_defined_options \in HostDefinedOptions :
          ((context_data = "uninitialized_symbol")
             <=> (enc.fields0["script"][kContextDataField] = "uninitialized_symbol"))
          => SamePayloadWith(context_data, host_defined_options)
  /\ (enc.pc \notin {"none", "idle"} /\ InSerializeGeneric(enc, "script")) =>
       /\ enc.fields["script"][kContextDataField] =
            (IF enc.fields0["script"][kContextDataField] = "uninitialized_symbol"
             THEN "uninitialized_symbol" ELSE "undefined")
       /\ enc.fields["script"][kHostDefinedOptionsField] = "empty_fixed_array"

\* An entry for a script with a native context as context data and host-defined
\* options that hold a JSFunction: neither is in the payload.
C30_Witness ==
  /\ Serialized
  /\ enc.fields0["script"] = <<"source", "undefined", "native_context", "host_options">>
  /\ enc.kind["extra"] = "JSFunction"
  /\ SamePayloadWith("undefined", "empty_fixed_array")

\* The positions of the controlling thread inside FinishOffThreadDeserialize.
FinishPcs == {"F_check", "F_result", "F_handle", "F_source", "F_scripts", "F_finalize"}

\* The positions of the background thread inside StartDeserializeOffThread.
StartPcs == {"S_check", "S_deserialize", "S_detach"}

\* The data is what a StartDeserializeOffThread call that has returned leaves:
\* the failed check alone, or the check, the deserializer and the detach.
StartHasReturned(d) ==
  \/ d.steps = <<"check">> /\ d.sanity_check_result # kSuccess
  \/ d.steps = <<"check", "deserialize", "detach">> /\ d.sanity_check_result = kSuccess

\* While the controlling thread waits in Join, the thread it started runs, or
\* has run, Start for this decode; while it is in Finish, the data it reads is
\* that of this decode, Start for it has returned and no thread runs it.
C24_State ==
  /\ main.pc = "D_join" =>
       /\ worker.pc \in StartPcs \cup {"returned"}
       /\ worker.result.id = main.id /\ worker.w = main.w
       /\ data.state = "none"
  /\ main.pc \in FinishPcs =>
       /\ data.state = "finishing" /\ data.id = main.id /\ data.w = main.w
       /\ StartHasReturned(data)
       /\ ~(worker.pc # "none" /\ worker.result.id = main.id)

\* A thread is created for a decode that no thread was created for before, the
\* stress path of Deserialize creates one, and a thread goes away only when the
\* controlling thread takes its result after Start has returned.
C24_Step ==
  /\ (worker.pc = "none" /\ worker'.pc # "none") =>
       /\ ncalls' = ncalls + 1 /\ worker'.result.id = ncalls'
       /\ worker'.pc = "S_check"
  /\ (worker.pc # "none" /\ worker'.pc # "none") => worker'.result.id = worker.result.id
  /\ (main.pc = "idle" /\ main'.pc = "D_join") =>
       worker.pc = "none" /\ worker'.pc = "S_check" /\ worker'.result.id = main'.id
  /\ (main.pc = "D_join" /\ main'.pc # "D_join") =>
       /\ worker.pc = "returned" /\ worker'.pc = "none"
       /\ main'.pc = "F_check" /\ data' = [worker.result EXCEPT !.state = "finishing"]
  /\ (worker.pc # "none" /\ worker'.pc = "none") =>
       worker.pc = "returned" /\ data'.id = worker.result.id

\* C24: one worker thread is created per background decode; Finish on the
\* controlling thread starts only after that worker's Start has returned (the
\* controlling thread joins the thread before Finalize), the thread is never
\* left without being joined, and Start and Finish of one decode never overlap.
C24_JoinBeforeFinish == []C24_State /\ [][C24_Step]_vars

\* The stress path has joined a thread whose Start ran the deserializer, and
\* Finish has begun.
C24_Witness ==
  /\ flag_stress /\ main.pc = "F_check" /\ main.kind = "OffThread"
  /\ data.steps = <<"check", "deserialize", "detach">>
  /\ worker.pc = "none"

\* The SerializedCodeData a call holds is empty or a view of the caller's
\* buffer as it is, and a call that returned kSuccess left rejected_ as it was.
C26_State ==
  /\ main.scd \in {<<>>, <<buffer>>}
  /\ worker.scd \in {<<>>, <<buffer>>}
  /\ (ret.kind # "none" /\ ret.reason = kSuccess) => ret.rej1 = ret.rej0

\* No step changes the buffer, and the rejected_ flag of a wrapper changes only
\* to true, in the check of a call on that wrapper that fails.
C26_Step ==
  /\ buffer' = buffer
  /\ \A w \in Wrappers :
       rejected'[w] # rejected[w] =>
         /\ rejected'[w]
         /\ \/ /\ main.w = w /\ main.pc \in {"D_check", "F_check"}
               /\ main'.pc = "idle" /\ ret'.id = main.id /\ ret'.reason # kSuccess
            \/ /\ worker.w = w /\ worker.pc = "S_check"
               /\ worker'.pc = "returned"
               /\ worker'.result.sanity_check_result # kSuccess

\* C26: no sequence of Deserialize, Start and Finish calls, with the checks
\* they run, changes a header field, a payload byte or the length of the
\* buffer; of the wrapper they change the rejected flag only, and a call whose
\* check succeeds does not change that either.
C26_EntryImmutable == []C26_State /\ [][C26_Step]_vars

\* A second call on a wrapper that an earlier failed call rejected: its check
\* succeeds on the unchanged buffer and the flag stays as it was.
C26_Witness ==
  /\ ret.kind # "none" /\ ret.reason = kSuccess /\ ret.graph # <<>>
  /\ ret.rej0 /\ ret.rej1 /\ samples # <<>>
  /\ ret.graph[1].body = Payload(buffer)

\* The three DCHECKs before set_source (506-509).
SourceFixUpDChecks == {"Finish:scripts.size", "Finish:script", "Finish:source"}

\* C27: when Finish reaches the source fix-up, Start has recorded exactly one
\* script, it is the script of the result and its source is the empty string,
\* so none of the three DCHECKs before set_source ever fails; from the fix-up
\* on, and in the graph a successful Finish returns, the script's source is the
\* source passed to Finish.
C27_SourceFixUp ==
  /\ dchecks \cap SourceFixUpDChecks = {}
  /\ main.pc = "F_source" =>
       /\ Len(data.scripts) = 1
       /\ data.scripts[1] = main.result
       /\ heap[main.result].source = empty_string
  /\ main.pc \in {"F_scripts", "F_finalize"} => heap[main.result].source = main.source
  /\ (ret.kind = "OffThread" /\ ret.graph # <<>>) =>
       /\ ret.graph[1].source = ret.source
       /\ Len(SelectSeq(ret.steps, LAMBDA step : step = "source")) = 1

\* A successful Finish with a source that is not the empty string.
C27_Witness ==
  /\ ret.kind = "OffThread" /\ ret.reason = kSuccess /\ ret.graph # <<>>
  /\ ret.source # empty_string
  /\ ret.graph[1].source = ret.source

\* The script list grows at its end only, by the scripts of the decode whose
\* Finish is at the script-list fix-up, in the order Start recorded them.
C28_Step ==
  /\ script_list' # script_list =>
       /\ main.pc = "F_scripts" /\ main'.pc = "F_finalize"
       /\ script_list' = script_list \o data.scripts
  /\ (main.pc = "F_scripts" /\ main'.pc # "F_scripts") =>
       /\ Len(script_list') = Len(script_list) + Len(data.scripts)
       /\ SubSeq(script_list', 1, Len(script_list)) = script_list
       /\ \A i \in 1..Len(data.scripts) :
            script_list'[Len(script_list) + i] = data.scripts[i]

\* The ids of the decodes FinalizeDeserialization ran on whose script was
\* allocated off-thread (the on-thread deserializer is not given the list).
FinishedOffThread == SelectSeq(finalized, LAMBDA id : id \in {script_list[i] : i \in 1..Len(script_list)})

\* No script is in the list twice; a successful Finish returns with the list
\* it found followed by its script; the list is in the order of the Finishes.
C28_State ==
  /\ \A i, j \in 1..Len(script_list) : script_list[i] = script_list[j] => i = j
  /\ (ret.kind = "OffThread" /\ ret.graph # <<>>) => ret.list1 = ret.list0 \o <<ret.id>>
  /\ (ret.kind # "none" /\ ret.graph = <<>>) => ret.list1 = ret.list0
  /\ script_list = FinishedOffThread
                      \o (IF main.pc = "F_finalize" THEN <<main.result>> ELSE <<>>)

\* C28: a successful Finish appends every script Start recorded to the end of
\* the script list, each once and in Start's order, and keeps the entries that
\* were there; after N successful background decodes the list is the earlier
\* entries followed by the scripts of these decodes in the order of the Finishes.
C28_RegistryAppend == []C28_State /\ [][C28_Step]_vars

\* The second of two successful background decodes has returned: its script
\* follows the script of the first.
C28_Witness ==
  /\ ret.kind = "OffThread" /\ ret.graph # <<>>
  /\ ret.list0 # <<>> /\ ret.list1 = ret.list0 \o <<ret.id>>
  /\ script_list = <<1, 2>> /\ finalized = <<1, 2>>

\* The positions of the controlling thread inside Deserialize.
DeserializePcs == {"D_join", "D_check", "D_deserialize", "D_finalize"}

\* The terminal outcomes of a decode that hold of what a call reported.
TerminalOutcomes(r) ==
  {outcome \in {"success", "sanity failure", "reservation failure"} :
     \/ outcome = "success" /\ r.reason = kSuccess /\ r.graph # <<>>
     \/ /\ outcome = "sanity failure" /\ r.graph = <<>>
        /\ r.reason \in SanityCheckResults \ {kSuccess}
     \/ /\ outcome = "reservation failure" /\ r.graph = <<>>
        /\ r.reason = kSuccess /\ ~r.alloc_ok}

\* Every thread is outside a call or at a step of one, a call that returned
\* reported exactly one terminal outcome, and data handed over by Start is that
\* of a Start that ran to its return.
C25_State ==
  /\ main.pc \in {"idle"} \cup DeserializePcs \cup FinishPcs
  /\ worker.pc \in {"none", "returned"} \cup StartPcs
  /\ ret.kind # "none" => Cardinality(TerminalOutcomes(ret)) = 1
  /\ data.state # "none" => StartHasReturned(data)

\* The controlling thread leaves a call only by returning from it, with exactly
\* one terminal outcome of that decode; the background thread leaves Start only
\* by returning from it.
C25_Step ==
  /\ (main.pc # "idle" /\ main'.pc # "idle") => main'.id = main.id /\ main'.kind = main.kind
  /\ (main.pc # "idle" /\ main'.pc = "idle") =>
       /\ ret'.id = main.id /\ ret'.kind = main.kind
       /\ Cardinality(TerminalOutcomes(ret')) = 1
  /\ (worker.pc \in StartPcs /\ worker'.pc \notin StartPcs) =>
       /\ worker'.pc = "returned" /\ worker'.result.id = worker.result.id
       /\ StartHasReturned(worker'.result)

Constructed == acd.pc \in {"constructed", "rejected", "script_data"}

\* What holds of every wrapper whoever owns its block: with an unaligned
\* address it holds a copy of the bytes, with an aligned one the pointer it was
\* given; its pointer is aligned, its length the one given, and it is not
\* rejected before the first Reject().
CopyAndAlignment ==
  LET object == acd.object
      given == acd.given
  IN /\ object.length_ = given.length
     /\ IsAligned(object.data_, kPointerAlignment)
     /\ IF IsAligned(given.data, kPointerAlignment)
        THEN object.data_ = given.data
        ELSE /\ object.data_ # given.data
             /\ acd.memory[object.data_] = SubSeq(acd.memory[given.data], 1, given.length)
     /\ acd.pc \in {"constructed", "script_data"} => ~object.rejected_
     /\ acd.memory[acd.buffer] = acd.bytes

\* C23 as stated: every wrapper owns its data exactly when the address it was
\* constructed with is not pointer-aligned.
C23_OwnershipAndAlignmentAsStated ==
  /\ "AlignedCachedData:DCHECK(IsAligned)" \notin dchecks
  /\ Constructed =>
       /\ CopyAndAlignment
       /\ acd.object.owns_data_ <=> ~IsAligned(acd.given.data, kPointerAlignment)

\* C23 (amended): a wrapper constructed over a buffer of a caller owns its data
\* exactly when the address is not pointer-aligned, and then holds an aligned
\* copy with the same bytes and length; with an aligned address it keeps the
\* pointer.  The wrapper GetScriptData makes over the written entry keeps the
\* aligned pointer and owns the block until Serialize releases it.  The data
\* pointer of a wrapper is always aligned, and a new wrapper is not rejected.
C23_OwnershipAndAlignment ==
  /\ "AlignedCachedData:DCHECK(IsAligned)" \notin dchecks
  /\ Constructed =>
       /\ CopyAndAlignment
       /\ acd.object.owns_data_ <=>
            (~IsAligned(acd.given.data, kPointerAlignment) \/ acd.pc = "script_data")
  /\ acd.pc = "deleted" => ~acd.object.owns_data_ /\ acd.memory[acd.buffer] = acd.bytes

\* A wrapper over an unaligned buffer of two bytes holds its own copy of them,
\* and has been rejected since.
C23_Witness ==
  /\ acd.pc = "rejected"
  /\ ~IsAligned(acd.given.data, kPointerAlignment) /\ acd.given.length = 2
  /\ acd.object.owns_data_ /\ acd.object.rejected_
  /\ acd.memory[acd.object.data_] = acd.memory[acd.given.data]

\* C33: the DCHECK_EQ of Payload() holds whenever a deserializer takes the
\* payload of an entry the checks have accepted, and an entry a decode
\* succeeded on has header size plus stored payload length equal to its size.
C33_PayloadEndsAtBufferEnd ==
  /\ "Payload:DCHECK_EQ" \notin dchecks
  /\ (ret.kind # "none" /\ ret.graph # <<>>) =>
       buffer.size = kHeaderSize + buffer.payload_length

\* C31: for a record on a page of the read-only space SerializeReadOnlyObject
\* reports a hit and writes exactly the read-only reference token, the
\* zero-based position of the page in the list of pages, which is smaller than
\* the number of pages, and the offset of the record in the page; the record
\* gets no back-reference index and nothing else of the serializer changes.
\* For a record on no page it reports no hit and changes nothing.
C31_ReadOnlyReference ==
  Applied =>
    LET obj == chk[1].obj
        returned == chk[1].returned
        places == {a \in PageEntries(enc.pages) : enc.pages[a[1]][a[2]] = obj}
    IN IF places = {}
       THEN ~returned.hit /\ returned.e = enc
       ELSE \A a \in places :
              /\ returned.hit
              /\ returned.e.sink =
                   enc.sink \o <<kReadOnlyHeapRef, a[1] - 1, kObjectAlignment * a[2]>>
              /\ a[1] - 1 < Len(enc.pages)
              /\ returned.e = [enc EXCEPT !.sink = returned.e.sink, !.step = "read-only"]
              /\ PositionIn(returned.e.reference_map, obj) = 0

\* A record in the second place of the last of three pages, the first of which
\* is empty.
C31_Witness ==
  /\ Applied /\ chk[1].returned.hit
  /\ Len(enc.pages) = 3 /\ enc.pages[1] = <<>>
  /\ Len(enc.pages[3]) = 2 /\ enc.pages[3][2] = chk[1].obj
  /\ chk[1].returned.e.sink = <<kReadOnlyHeapRef, 2, 2 * kObjectAlignment>>

\* SerializeObjectImpl has just been called for a record that none of the four
\* reference steps matches and of which the elision predicate holds.
ElidedReached ==
  /\ Visited
  /\ ~enc.last[1].hot /\ ~enc.last[1].root /\ ~enc.last[1].back_reference
  /\ ~enc.last[1].read_only
  /\ enc.last[1].elide

\* Nothing has been written for the record; undefined is the next record to
\* go through SerializeObject.
PlaceholderInPlace ==
  /\ enc.step = "elided" /\ enc.pc = "running"
  /\ enc.sink = enc.last[1].sink
  /\ enc.reference_map = enc.last[1].reference_map
  /\ enc.fields = enc.last[1].fields
  /\ Head(enc.stack[1].todo) = "undefined"

\* The visit after that of an elided record is that of undefined, written as
\* the reference the priority order gives it: a hot object or a root.
PlaceholderEncoded ==
  \A i \in 1..(Len(enc.visits) - 1) :
    (enc.visits[i].obj \in enc.elide /\ enc.visits[i].tokens = <<>>) =>
      /\ enc.visits[i + 1].obj = "undefined"
      /\ Len(enc.visits[i + 1].tokens) = 2
      /\ enc.visits[i + 1].tokens[1] =
           (IF enc.visits[i + 1].hot THEN kHotObject ELSE kRootArray)

\* No elided record has a back-reference index, and every record that has one
\* is reached from the function without passing through an elided record.
ElidedNotEncoded ==
  enc.pc \notin {"none", "idle", "nullptr"} =>
    \A i \in 1..Len(enc.reference_map) :
      /\ enc.reference_map[i] \notin enc.elide
      /\ enc.reference_map[i] \in Closure(SerializedFields(enc), {"info"})

\* C32 as stated: a record of which the elision predicate holds and which no
\* reference step matches is replaced by undefined, which is then encoded by
\* the normal priority order; no elided record and nothing reached only through
\* one is encoded or gets a back-reference index.
C32_ElisionAsStated ==
  /\ ElidedReached => PlaceholderInPlace
  /\ PlaceholderEncoded
  /\ ElidedNotEncoded

\* C32 (amended): the same for a record that is not a Code object; for a Code
\* object CHECK(!obj->IsCode()) fails before the elision predicate is asked.
C32_Elision ==
  /\ (ElidedReached /\ enc.last[1].kind # "Code") => PlaceholderInPlace
  /\ (ElidedReached /\ enc.last[1].kind = "Code") =>
       enc.pc = "fatal" /\ enc.sink = enc.last[1].sink
  /\ PlaceholderEncoded
  /\ ElidedNotEncoded

\* The bytecode array was elided: the entry is complete, the extra record in
\* its constant pool has no back-reference index, and undefined stands in the
\* sink where the function's bytecode would.
C32_Witness ==
  /\ enc.pc = "done" /\ "bytecode" \in enc.elide /\ "script" \notin enc.elide
  /\ PositionIn(enc.fields0["bytecode"], "extra") # 0
  /\ enc.fields0["script"][kNameField] = "undefined"
  /\ PositionIn(enc.reference_map, "extra") = 0
  /\ PositionIn(enc.reference_map, "bytecode") = 0
  /\ \E i \in 1..(Len(enc.visits) - 1) :
       /\ enc.visits[i].obj = "bytecode" /\ enc.visits[i].tokens = <<>>
       /\ enc.visits[i + 1].obj = "undefined"
       /\ enc.visits[i + 1].tokens[1] = kRootArray

C35_State ==
  /\ Len(samples) <= ncalls
  /\ (ret.kind # "none" /\ ret.reason # kSuccess) =>
       samples # <<>> /\ samples[Len(samples)] = ret.reason

\* A step of the background thread adds no sample.  A return of the controlling
\* thread adds one sample, the reason it returns, exactly when that reason is
\* not kSuccess, and then it returns from the check: from that of Deserialize,
\* or from that of Finish with the reason Start stored or, when Start stored
\* kSuccess, with kSourceMismatch.  No other step adds a sample.
C35_Step ==
  /\ worker' # worker => samples' = samples
  /\ (main.pc # "idle" /\ main'.pc = "idle") =>
       /\ ret'.id = main.id
       /\ samples' = IF ret'.reason # kSuccess THEN Append(samples, ret'.reason)
                     ELSE samples
       /\ ret'.reason # kSuccess =>
            /\ main.pc \in {"D_check", "F_check"} /\ ret'.graph = <<>>
            /\ main.pc = "F_check" =>
                 ret'.reason = (IF data.sanity_check_result # kSuccess
                                THEN data.sanity_check_result ELSE kSourceMismatch)
  /\ ~(main.pc # "idle" /\ main'.pc = "idle") => samples' = samples

\* C35: the rejection reason is added to the counter once per decode whose
\* sanity check fails, by the controlling thread, with the reason the decode
\* returns: by Deserialize before it returns, never by Start, by Finish with
\* the stored reason or kSourceMismatch; a decode whose check passes adds
\* nothing, also when the deserializer then fails to allocate.
C35_RejectReasonReported == []C35_State /\ [][C35_Step]_vars

\* Two decodes of an entry that fails Phase A: a Deserialize, then a Start and
\* its Finish.  There are two samples, one per decode; the second is the
\* reason Start stored, added when Finish returned.
C35_Witness ==
  /\ Len(samples) = 2 /\ ret.id = 2 /\ ncalls = 2
  /\ ret.kind = "OffThread" /\ ret.steps = <<"check">>
  /\ ret.stored # kSuccess /\ ret.reason = ret.stored /\ ret.graph = <<>>
  /\ samples[2] = ret.reason
  /\ main.pc = "idle" /\ worker.pc \notin StartPcs

Finals == {"SignFinal", "VerifyFinal"}

\* The calls made on the object so far.
Calls == IF sign.pc = "none" THEN <<>> ELSE sign.calls

\* C36: Update, SignFinal and VerifyFinal return kSignNotInitialised whenever
\* no Init has returned kSignOk since the construction and since the last
\* Final call, and then leave the object as it was; an Init that fails with
\* kSignUnknownDigest or kSignInit leaves mdctx_ null; mdctx_ is null whenever
\* the object is not initialised in that sense.
C36_NotInitialised ==
  /\ \A i \in 1..Len(Calls) :
       /\ (Calls[i].op \in Finals \cup {"Update"} /\ ~Calls[i].initialised) =>
            Calls[i].result = kSignNotInitialised /\ Calls[i].after = <<>>
       /\ (Calls[i].op = "Init" /\ Calls[i].result \in {kSignUnknownDigest, kSignInit}) =>
            Calls[i].after = <<>>
  /\ (sign.pc # "none" /\ ~sign.initialised) => sign.mdctx_ = <<>>

\* An Init failed in EVP_DigestInit_ex, and the Update after it was refused.
C36_Witness ==
  \E i \in 1..(Len(Calls) - 1) :
    /\ Calls[i].op = "Init" /\ Calls[i].result = kSignInit
    /\ Calls[i].detail = "EVP_DigestInit_ex"
    /\ Calls[i + 1].op = "Update" /\ Calls[i + 1].result = kSignNotInitialised

\* C37: a SignFinal or VerifyFinal call on an object that has a digest context
\* leaves mdctx_ null whatever it returns (kSignOk, kSignPrivateKey,
\* kSignPublicKey), so a Final call directly after a Final call returns
\* kSignNotInitialised and an Init directly after a Final call passes
\* CHECK_NULL(mdctx_).
C37_FinalConsumes ==
  /\ \A i \in 1..Len(Calls) :
       (Calls[i].op \in Finals /\ Calls[i].before # <<>>) =>
         /\ Calls[i].after = <<>>
         /\ Calls[i].result \in {kSignOk, kSignPrivateKey, kSignPublicKey}
  /\ \A i \in 1..(Len(Calls) - 1) :
       Calls[i].op \in Finals =>
         /\ Calls[i + 1].op \in Finals => Calls[i + 1].result = kSignNotInitialised
         /\ Calls[i + 1].op = "Init" => Calls[i + 1].result # kCheckNull
         /\ Calls[i + 1].before = <<>>

\* Init, a SignFinal that fails in ValidateDSAParameters, a second SignFinal
\* that is refused, and an Init that succeeds.
C37_Witness ==
  /\ Len(Calls) = 4
  /\ Calls[1].op = "Init" /\ Calls[1].result = kSignOk
  /\ Calls[2].op = "SignFinal" /\ Calls[2].result = kSignPrivateKey
  /\ Calls[2].detail = "ValidateDSAParameters"
  /\ Calls[3].op = "SignFinal" /\ Calls[3].result = kSignNotInitialised
  /\ Calls[4].op = "Init" /\ Calls[4].result = kSignOk /\ sign.mdctx_ # <<>>

====
